---- MODULE Spec2Model ----
(***************************************************************************)
(* Monitoring core of the Solana wallet monitor bot (src/main.py):         *)
(* the watch registry (monitored_wallets), the notified-signature ledger   *)
(* (transaction_history), the poll scheduler with its per-account check    *)
(* (check_transactions_optimized), the concurrent per-signature tasks      *)
(* (process_single_transaction) and the notification router                *)
(* (send_transaction_notification).                                        *)
(*                                                                         *)
(* Every await of the source is a step boundary: the per-account check and *)
(* each per-signature task advance one awaited call at a time and may be   *)
(* interleaved with each other, with the registry commands and with a      *)
(* process restart.                                                        *)
(***************************************************************************)
EXTENDS Integers, Sequences, FiniteSets, TLC

\* ---------------------------------------------------------------- bounds
MaxSig  == 3      \* signatures on the chain are 1..MaxSig
MaxLen  == 2      \* longest list getSignaturesForAddress returns
MaxRows == 2      \* rows ever inserted into monitored_wallets
MaxTime == 2      \* clock readings are 1..MaxTime

\* ------------------------------------------------------------- constants
NULL == 0                                  \* SQL NULL / Python None
\* the administrator's chat id (5053683608 in the source; only its identity
\* matters, and the value is beyond the model checker's integers)
ADMIN_CHAT_ID == 1
DEFAULT_MIN_NOTIFICATION_AMOUNT == 100000  \* 0.0001 SOL, in 1e-9 SOL units
\* Times are fixed-point numbers: Second units make one second (the unit
\* is 10 ms), and a product of a delay and a factor is rounded down to a
\* whole unit.
Second == 100
BASE_DELAY == Second \div 4                \* 0.25 s
MAX_DELAY  == 3 * Second                   \* 3.0 s
MIN_DELAY  == (8 * Second) \div 100        \* 0.08 s
BATCH_SIZE == 12
MAX_RETRIES == 2
MAX_RPC_CALLS_PER_SECOND == 25
SUCCESS_THRESHOLD_FOR_SPEEDUP == 3
WINDOW == 60 * Second                      \* recent_requests keeps 60 s

Chats      == {ADMIN_CHAT_ID, 2}
\* an id of the broadcast channel, as ID_CHAT gives it
SomeChannel == 0 - 100
Accounts   == {"A"}
Sigs       == 1..MaxSig
StartTimes == 1..MaxTime

\* ------------------------------------------------------ the chain (input)
\* What the RPC node reports for a signature is fixed by the chain.
\* Signature 1 carries no blockTime (JSON null); signature s > 1 has
\* blockTime s - 1.
ChainBlockTime(sig) == sig - 1

\* postBalances[i] - preBalances[i] of the watched account, in lamports.
ChainDelta(sig) ==
  CASE sig = 1 -> 50000
    [] sig = 2 -> 100000
    [] OTHER   -> 0 - 500000000

VARIABLES
  monitored_wallets,        \* table: sequence of rows, index = id
  transaction_history,      \* table: signature -> rows holding that signature
  settings,                 \* settings['min_notification_amount'], a text
  MIN_NOTIFICATION_AMOUNT,  \* the module global, in 1e-9 SOL units
  check,                    \* the running check_transactions_optimized call
  tasks,                    \* its process_single_transaction tasks; a task
                            \* keeps the number of rows it read as wallets
  routed,                   \* signature -> number of router invocations
  chain,                    \* the chain and what the polls have seen of it
  MONITORING_CHANNEL,       \* the module global: the channel id, or NULL
  router,                   \* the running send_transaction_notification call
  sent,                     \* signature -> send_message calls per destination
  adding,                   \* add_wallet calls between their check and insert
  rate_limiter,             \* the SmartRateLimiter object
  rpc,                      \* the running make_rpc_call
  acquirers,                \* where each concurrent caller of acquire() is
  filter,                   \* the running filter_command
  classifier,               \* the running calculate_balance_change call
  sched,                    \* monitoring_tasks['global_monitor'] and its loop
  health                    \* the health_monitor task

\* the state of the components that the monitoring core does not write
aux == <<chain, MONITORING_CHANNEL, router, sent, adding, rate_limiter,
         rpc, acquirers, filter, classifier, sched, health>>

\* what the chain, the router, the registry commands and the scheduler
\* leave alone
notChain    == <<MONITORING_CHANNEL, router, sent, adding, rate_limiter,
                 rpc, acquirers, filter, classifier, sched, health>>
notRouter   == <<chain, adding, rate_limiter, rpc, acquirers, filter,
                 classifier, sched, health>>
notRegistry == <<chain, MONITORING_CHANNEL, router, sent, rate_limiter,
                 rpc, acquirers, filter, classifier, sched, health>>
notSched    == <<chain, MONITORING_CHANNEL, router, sent, adding,
                 rate_limiter, rpc, acquirers, filter, classifier>>
notLimiter  == <<chain, MONITORING_CHANNEL, router, sent, adding, acquirers,
                 filter, classifier, sched, health>>
notWindow   == <<monitored_wallets, transaction_history, settings,
                 MIN_NOTIFICATION_AMOUNT, check, tasks, routed, chain,
                 MONITORING_CHANNEL, router, sent, adding, rpc, filter,
                 classifier, sched, health>>
notFilter   == <<monitored_wallets, transaction_history, check, tasks,
                 routed, chain, MONITORING_CHANNEL, router, sent, adding,
                 rate_limiter, rpc, acquirers, classifier, sched, health>>
notClassifier == <<monitored_wallets, transaction_history, settings,
                   MIN_NOTIFICATION_AMOUNT, check, tasks, routed, chain,
                   MONITORING_CHANNEL, router, sent, adding, rate_limiter,
                   rpc, acquirers, filter, sched, health>>

vars == <<monitored_wallets, transaction_history, settings,
          MIN_NOTIFICATION_AMOUNT, check, tasks, routed, aux>>

\* --------------------------------------------------------------- helpers
Abs(x) == IF x < 0 THEN 0 - x ELSE x

RECURSIVE Reverse(_)
Reverse(s) == IF s = <<>> THEN <<>> ELSE Append(Reverse(Tail(s)), Head(s))

\* lists the RPC may return: any non-empty sequence of signatures
SigLists == UNION {[1..n -> Sigs] : n \in 1..MaxLen}

\* A row with is_active = FALSE: no statement of the program reads such a
\* row again (every SELECT and UPDATE has is_active = TRUE in its WHERE), so
\* only its existence and its address are kept.
InactiveRow ==
  [chat_id |-> NULL, wallet_address |-> "", is_active |-> FALSE,
   last_signature |-> NULL, monitoring_start_time |-> NULL]

\* orphan says that the account had no active row when the check started
IdleCheck ==
  [pc |-> "idle", wallet_address |-> "", signatures |-> <<>>, row |-> NULL,
   last_signature |-> NULL, monitoring_start_time |-> NULL,
   new_transactions |-> <<>>, emitted |-> <<>>, fresh |-> {},
   orphan |-> FALSE]

\* ------------------------------------------------------- DatabaseManager
\* the settings table has no 'min_notification_amount' row: fetchval
\* returns None
NoSetting == <<>>

\* (mutation) the statements do not look at is_active
IsActive_Any(row) == TRUE

\* AND is_active = TRUE, in the WHERE of every statement on the table
IsActive(row) == row.is_active

\* WHERE wallet_address = $1 AND is_active = TRUE
ActiveRows(addr) ==
  {i \in DOMAIN monitored_wallets :
     /\ IsActive(monitored_wallets[i])
     /\ monitored_wallets[i].wallet_address = addr}

\* get_monitored_wallets_by_address: the SELECT has no ORDER BY, so the rows
\* come back in any order.
get_monitored_wallets_by_address(addr) ==
  LET rows == ActiveRows(addr)
      n    == Cardinality(rows)
  IN {s \in [1..n -> rows] : \A i, j \in 1..n : i /= j => s[i] /= s[j]}

\* get_monitored_wallets(chat_id)
get_monitored_wallets(chat_id) ==
  {i \in DOMAIN monitored_wallets :
     /\ IsActive(monitored_wallets[i])
     /\ monitored_wallets[i].chat_id = chat_id}

RECURSIVE ActiveAddresses(_, _)
\* the wallet_address of every active row among the first n rows of table w
ActiveAddresses(w, n) ==
  IF n = 0 THEN <<>>
  ELSE IF IsActive(w[n])
       THEN Append(ActiveAddresses(w, n - 1), w[n].wallet_address)
       ELSE ActiveAddresses(w, n - 1)

\* get_all_monitored_wallets: one entry per active row
get_all_monitored_wallets ==
  ActiveAddresses(monitored_wallets, Len(monitored_wallets))

\* update_last_signature: every active row of the address gets the value
\* (mutation) only the rows without a cursor are updated
update_last_signature_NullOnly(addr, signature) ==
  [i \in DOMAIN monitored_wallets |->
     IF /\ IsActive(monitored_wallets[i])
        /\ monitored_wallets[i].wallet_address = addr
        /\ monitored_wallets[i].last_signature = NULL
     THEN [monitored_wallets[i] EXCEPT !.last_signature = signature]
     ELSE monitored_wallets[i]]

\* UPDATE monitored_wallets SET last_signature = $1
\* WHERE wallet_address = $2 AND is_active = TRUE
update_last_signature(addr, signature) ==
  [i \in DOMAIN monitored_wallets |->
     IF /\ IsActive(monitored_wallets[i])
        /\ monitored_wallets[i].wallet_address = addr
     THEN [monitored_wallets[i] EXCEPT !.last_signature = signature]
     ELSE monitored_wallets[i]]

\* (mutation) the insert never sees a conflict
InsertConflict_Never(th, signature) == FALSE

\* ON CONFLICT (signature): a row with this signature exists
InsertConflict(th, signature) == th[signature] /= <<>>

\* (mutation) the column keeps its default, FALSE
InsertedNotified_Default == FALSE

\* the value of the notified column the INSERT writes
InsertedNotified == TRUE

\* (mutation) a plain INSERT on a table without the UNIQUE constraint
add_transaction_record_Plain(th, signature, tx_type) ==
  [th EXCEPT ![signature] =
     Append(@, [tx_type |-> tx_type, notified |-> InsertedNotified])]

\* add_transaction_record: INSERT ... ON CONFLICT (signature) DO NOTHING
add_transaction_record(th, signature, tx_type) ==
  IF InsertConflict(th, signature) THEN th
  ELSE [th EXCEPT ![signature] =
          Append(@, [tx_type |-> tx_type, notified |-> InsertedNotified])]

\* is_transaction_already_notified
is_transaction_already_notified(signature) ==
  \E k \in DOMAIN transaction_history[signature] :
     transaction_history[signature][k].notified

\* ------------------------------------------------------------ classifier
\* format_sol_amount renders lamports / 1e9 with nine decimals: the string
\* denotes the same number of 1e-9 SOL units.
format_sol_amount(lamports) == lamports

\* the programIds of calculate_balance_change
trading_programs ==
  {"675kPX9MHTjS2zt1qfr1NYHuzeLXfQM9H24wFSUt1Mp8",
   "9W959DqEETiGZocYWCQPaJ6sBmUzgfxXfqGeTEdp3aQP",
   "JUP4Fb2cqiRUcaTHdrPC8h2gNsA2ETXiPDD33WcGuJB",
   "JUP6LkbZbjS1jKKwapdHNy74zcZ3tLUZoi5QNyVTaV4",
   "whirLbMiicVdio4qvUfM5KAg6Ct8VwpYzGff3uctyCc",
   "CAMMCzo5YL8w4VFF8KVHrK22GGUsp5VTaW7grrKgrWqK",
   "PhoeNiXZ8ByJGLkxNfZRnkUfjvmuYqLR89jjFHGqdXY",
   "MarBmsSgKXdrN1egZf5sqe1TMai9K1rChYNDJgjq7aD",
   "5Q544fKrFoe6tsEbD7S8EmxGTJYAKtTVhAW5Q5pge4j1",
   "DjVE6JNiYqPL2QXyCUUh8rNjHrbz9hXHNYt99MQ59qw1",
   "SSwpkEEcbUqx4vtoEByFjSkhKdCT862DNVb52nZg1UZ",
   "AMM55ShdkoGRB5jVYPjWzTURSGdQnQ8LbtE4jktMTG8P",
   "EhYXEhg6JT5p2ZnhbRSFzKHigPuKFZuL9EGo7ZtDC5VY",
   "srmqPvymJeFKQ4zGQed1GFppgkRHL9kaELCbyksJtPX",
   "22Y43yTVxuUkoRKdm9thyRhQ3SdgQS7c7kB6UNCiaczD",
   "LBUZKhRxPF3XUpBCjp4YzTKgLccjZhTSDM9YuVaPwxo",
   "EewxydAPCCVuNEyrVN68PuSYdQ7wKn27V9Gjeoi8dy3S",
   "RaydiumCLMM"}

SPL_TOKEN_PROGRAM == "TokenkegQfeZyiNwAJbNbGKPFXCWuBvf9Ss623VQ5DA"
SYSTEM_PROGRAM == "11111111111111111111111111111112"

\* A getTransaction result is given as calculate_balance_change reads it:
\* accountKeys, preBalances and postBalances are lists, instructions is
\* the list of the programId of every instruction, and preTokenBalances
\* and postTokenBalances are the lengths of the two lists, of which only
\* the length is read.

\* The index of wallet_address in account_keys (lists start at 1 here), or
\* NULL.
wallet_index(account_keys, wallet_address) ==
  IF \E i \in DOMAIN account_keys : account_keys[i] = wallet_address
  THEN CHOOSE i \in DOMAIN account_keys :
         /\ account_keys[i] = wallet_address
         /\ \A j \in DOMAIN account_keys :
              account_keys[j] = wallet_address => i <= j
  ELSE NULL

\* (mutation) the direction of the balance change is looked at first
TradingFirst_No == FALSE

\* the loop over the trading programs comes before the test of the sign
TradingFirst == TRUE

\* token_transfers = meta.get('preTokenBalances', []) or
\*                   meta.get('postTokenBalances', [])
token_transfers(transaction) ==
  IF transaction.preTokenBalances # 0
  THEN transaction.preTokenBalances ELSE transaction.postTokenBalances

\* "receive" / "send" / "generic" by the sign of the change
ByDirection(change) ==
  IF change > 0 THEN "receive"
  ELSE IF change < 0 THEN "send" ELSE "generic"

\* calculate_balance_change
calculate_balance_change(transaction, wallet_address) ==
  LET i == wallet_index(transaction.accountKeys, wallet_address)
  IN  IF i = NULL
      THEN [amount |-> 0, tx_type |-> "generic"]
      ELSE IF /\ Len(transaction.preBalances) >= i
              /\ Len(transaction.postBalances) >= i
           THEN LET change == transaction.postBalances[i]
                                - transaction.preBalances[i]
                    amount == format_sol_amount(change)
                    instructions == transaction.instructions
                IN  IF /\ TradingFirst
                       /\ \E n \in DOMAIN instructions :
                            instructions[n] \in trading_programs
                    THEN [amount |-> amount, tx_type |-> "trade"]
                    ELSE IF /\ TradingFirst
                            /\ \E n \in DOMAIN instructions :
                                 instructions[n] = SPL_TOKEN_PROGRAM
                            /\ token_transfers(transaction) > 1
                         THEN [amount |-> amount, tx_type |-> "trade"]
                         ELSE [amount |-> amount,
                               tx_type |-> ByDirection(change)]
           ELSE [amount |-> 0, tx_type |-> "generic"]

\* the getTransaction result of the chain for a signature: a plain
\* transfer that changes the balance of account "A" by ChainDelta and the
\* balance of account "B" by 100000 lamports more
ChainTransaction(sig) ==
  [accountKeys |-> <<"A", "B">>,
   preBalances |-> <<500000000, 500000000>>,
   postBalances |-> <<500000000 + ChainDelta(sig),
                      500100000 + ChainDelta(sig)>>,
   instructions |-> <<SYSTEM_PROGRAM>>,
   preTokenBalances |-> 0,
   postTokenBalances |-> 0]

\* amount_float < MIN_NOTIFICATION_AMOUNT
IsDust(amount, threshold) == Abs(amount) < threshold

\* ------------------------------------------------- per-account check
\* (mutation) nothing is discarded for its blockTime
BeforeMonitoringStart_Never(tx_time, monitoring_start_time) == FALSE

\* monitoring_start_time and tx_time and tx_time < monitoring_start_time
BeforeMonitoringStart(tx_time, monitoring_start_time) ==
  /\ monitoring_start_time /= NULL
  /\ tx_time /= NULL
  /\ tx_time < monitoring_start_time

\* (mutation) the first-check branch is never taken
IsFirstCheck_Never(last_signature) == FALSE

\* if not last_signature: this is the first check of the wallet
IsFirstCheck(last_signature) == last_signature = NULL

RECURSIVE FindNew_NoStop(_, _, _)
\* (mutation) the loop does not stop at last_signature
FindNew_NoStop(signatures, last_signature, monitoring_start_time) ==
  IF signatures = <<>> THEN <<>>
  ELSE IF BeforeMonitoringStart(ChainBlockTime(Head(signatures)),
                                monitoring_start_time)
       THEN FindNew_NoStop(Tail(signatures), last_signature,
                           monitoring_start_time)
       ELSE <<Head(signatures)>>
            \o FindNew_NoStop(Tail(signatures), last_signature,
                              monitoring_start_time)

RECURSIVE FindNew(_, _, _)
\* the loop over signatures: stop at last_signature, skip what is older
\* than monitoring_start_time, collect the rest
FindNew(signatures, last_signature, monitoring_start_time) ==
  IF signatures = <<>> THEN <<>>
  ELSE IF Head(signatures) = last_signature THEN <<>>
  ELSE IF BeforeMonitoringStart(ChainBlockTime(Head(signatures)),
                                monitoring_start_time)
       THEN FindNew(Tail(signatures), last_signature, monitoring_start_time)
       ELSE <<Head(signatures)>>
            \o FindNew(Tail(signatures), last_signature, monitoring_start_time)

\* (mutation) an entry without 'signature' raises nothing
MissingSignature_Ignored(signatures, last_signature) == FALSE

\* sig_info['signature'] raises KeyError: the check reads an entry that has
\* no 'signature' (NULL in the list).  The first check reads signatures[0]
\* only, the others read the entries down to the first that equals
\* last_signature.
MissingSignature(signatures, last_signature) ==
  IF IsFirstCheck(last_signature)
  THEN signatures[1] = NULL
  ELSE \E i \in DOMAIN signatures :
         /\ signatures[i] = NULL
         /\ \A j \in 1 .. i - 1 : signatures[j] # last_signature

\* the signature the "new transactions" branch writes as the cursor
CursorToWrite(signatures, new_transactions) == new_transactions[1]

\* the tasks created by the loop over reversed(new_transactions)
SpawnedTasks(new_transactions, monitoring_start_time) ==
  LET Keep(sig) == ~BeforeMonitoringStart(ChainBlockTime(sig),
                                          monitoring_start_time)
  IN [k \in 1..Len(SelectSeq(Reverse(new_transactions), Keep)) |->
        [pc |-> "ledger",
         signature |-> SelectSeq(Reverse(new_transactions), Keep)[k],
         wallets |-> 0, amount |-> 0, tx_type |-> "", dust |-> FALSE]]

\* (mutation) the dust branch does not return
AfterDust_FallThrough == "notify"

\* where process_single_transaction goes after the dust inserts (return)
AfterDust == "done"

\* where it goes after the insert of the first subscriber's row
AfterClaim(success) == IF success THEN "notify" ELSE "done"

\* no signature on the chain yet, nothing polled; firsts is the set of the
\* newest elements of the lists returned so far (kept by the polls of
\* CursorSpec); dropped is the set of the signatures for which a task got
\* no getTransaction result (kept by the tasks of DropSpec)
QuietChain ==
  [head |-> 0, polled_head |-> 0, polled_rows |-> {}, quiet |-> FALSE,
   firsts |-> {}, dropped |-> {}, skipped |-> {}]

\* no notification is being routed
IdleRouter ==
  [pc |-> "idle", wallet_address |-> "", signature |-> NULL,
   admin_monitoring |-> FALSE, regular_users_monitoring |-> FALSE]

\* no send_message call has been made
NothingSent ==
  [s \in Sigs |-> [channel |-> 0, admin |-> 0, failed |-> 0]]

\* SmartRateLimiter.__init__.  recent_requests holds, for every request
\* time t it keeps, the age current_time - t (capped at WINDOW, beyond which
\* the entry is dropped by the next acquire); lock is the task holding
\* self.lock, or NULL.  last_429_time holds, in the same way, the age of
\* the time it was last assigned, or NoTime for None.
NoTime == -1

NewRateLimiter ==
  [current_delay |-> BASE_DELAY, consecutive_successes |-> 0,
   last_429_time |-> NoTime,
   performance_mode |-> "normal", recent_requests |-> <<>>, lock |-> NULL]

\* no make_rpc_call is running; result is what the running call is about
\* to return: "data" (the decoded response), "null" (None) or "pending"
IdleRpc ==
  [pc |-> "idle", attempt |-> 0, reports |-> 0, storm |-> 0,
   result |-> "pending"]

\* The tasks that call rate_limiter.acquire() concurrently (the gathered
\* process_single_transaction tasks); none is inside acquire.
MaxCallers == 2
Callers == 1 .. MaxCallers
NoAcquirers == [c \in Callers |-> "out"]

\* no filter_command is running
IdleFilter == [pc |-> "idle", new_amount |-> 0]

\* no calculate_balance_change is running
IdleClassifier ==
  [pc |-> "idle",
   transaction |-> [accountKeys |-> <<>>, preBalances |-> <<>>,
                    postBalances |-> <<>>, instructions |-> <<>>,
                    preTokenBalances |-> 0, postTokenBalances |-> 0],
   wallet_address |-> "", amount |-> 0, tx_type |-> ""]

\* the values of performance_mode
Modes == {"normal", "fast", "careful"}

\* before start_bot: no 'global_monitor' entry in monitoring_tasks.
\* current_batch_size is the local of the running cycle, and batch_sizes
\* keeps, per mode, the batch size the latest cycle started in that mode
\* has read (NULL: none yet).  i is the index of the loop over the batches
\* (the offset of the batch in all_wallets), batch the slice being
\* processed, j the position in the batch of the wallet being checked, and
\* batches the slices the running cycle has taken so far.  running counts
\* the tasks created by asyncio.create_task(global_monitor_task()) that have
\* not ended, and callers keeps the origins of the calls of
\* start_global_monitoring.
StoppedScheduler ==
  [key |-> FALSE, task |-> "none", pc |-> "", all_wallets |-> <<>>,
   i |-> 0, batch |-> <<>>, j |-> 0, batches |-> <<>>,
   polled |-> <<>>, raised |-> FALSE, aborted |-> FALSE,
   cancelled |-> FALSE, current_batch_size |-> NULL,
   batch_sizes |-> [m \in Modes |-> NULL], running |-> 0, callers |-> {}]

\* health_monitor between two ticks
SleepingHealth == [pc |-> "sleep", active_tasks |-> 0]

\* ------------------------------------------------------------------ Init
Init ==
  /\ monitored_wallets = <<>>
  /\ transaction_history = [s \in Sigs |-> <<>>]
  /\ settings = NoSetting
  /\ MIN_NOTIFICATION_AMOUNT = DEFAULT_MIN_NOTIFICATION_AMOUNT
  /\ check = IdleCheck
  /\ tasks = <<>>
  /\ routed = [s \in Sigs |-> 0]
  /\ chain = QuietChain
  /\ MONITORING_CHANNEL = SomeChannel
  /\ router = IdleRouter
  /\ sent = NothingSent
  /\ adding = <<>>
  /\ rate_limiter = NewRateLimiter
  /\ rpc = IdleRpc
  /\ acquirers = NoAcquirers
  /\ filter = IdleFilter
  /\ classifier = IdleClassifier
  /\ sched = StoppedScheduler
  /\ health = SleepingHealth

\* ----------------------------------------------------- registry commands
\* add_wallet / add_monitored_wallet: refused when the caller already has an
\* active row for the address; the new row has no cursor and the current
\* time as monitoring_start_time.
AddWallet(chat_id, addr, now) ==
  /\ Len(monitored_wallets) < MaxRows
  /\ \A i \in DOMAIN monitored_wallets :
        monitored_wallets[i].monitoring_start_time <= now
  /\ \A i \in get_monitored_wallets(chat_id) :
        monitored_wallets[i].wallet_address /= addr
  /\ monitored_wallets' =
       Append(monitored_wallets,
              [chat_id |-> chat_id, wallet_address |-> addr,
               is_active |-> TRUE, last_signature |-> NULL,
               monitoring_start_time |-> now])
  /\ UNCHANGED <<transaction_history, settings, MIN_NOTIFICATION_AMOUNT,
                 check, tasks, routed>>
  /\ UNCHANGED aux

\* remove_wallet / remove_monitored_wallet: is_active = FALSE
RemoveWallet(chat_id, addr) ==
  /\ \E i \in get_monitored_wallets(chat_id) :
        monitored_wallets[i].wallet_address = addr
  /\ monitored_wallets' =
       [i \in DOMAIN monitored_wallets |->
          IF /\ IsActive(monitored_wallets[i])
             /\ monitored_wallets[i].chat_id = chat_id
             /\ monitored_wallets[i].wallet_address = addr
          THEN [InactiveRow EXCEPT !.wallet_address = addr]
          ELSE monitored_wallets[i]]
  /\ UNCHANGED <<transaction_history, settings, MIN_NOTIFICATION_AMOUNT,
                 check, tasks, routed>>
  /\ UNCHANGED aux

\* str(amount): the text of a setting, kept as the one-element sequence of
\* the amount it denotes
str(amount) == <<amount>>

\* float(text)
float(text) == text[1]

\* get_setting: the saved value, or default_value when there is no row or
\* the query raised
get_setting(saved, readable, default_value) ==
  IF readable /\ saved # NoSetting THEN saved ELSE default_value

\* load_filter_setting: get_setting with the current global as default
load_filter_setting(saved, current) ==
  float(get_setting(saved, TRUE, str(current)))

\* The process stops and starts again: the tables survive, the scheduler,
\* its check and its tasks are gone, the module global is re-initialised
\* and then loaded from the settings table (start_bot).
Restart ==
  /\ check.pc /= "idle"
  /\ check' = IdleCheck
  /\ tasks' = <<>>
  /\ MIN_NOTIFICATION_AMOUNT' =
       load_filter_setting(settings, DEFAULT_MIN_NOTIFICATION_AMOUNT)
  /\ UNCHANGED <<monitored_wallets, transaction_history, settings,
                 routed>>
  /\ UNCHANGED aux

\* ------------------------------------------------------------- scheduler
\* global_monitor_task / process_wallet_batch: the scheduler checks the
\* wallets of get_all_monitored_wallets one after the other, cycle after
\* cycle; the next check is that of some address with an active row.
CheckStart ==
  /\ check.pc = "idle"
  /\ \E k \in DOMAIN get_all_monitored_wallets :
        check' = [IdleCheck EXCEPT
                    !.pc = "rpc",
                    !.wallet_address = get_all_monitored_wallets[k]]
  /\ UNCHANGED <<monitored_wallets, transaction_history, settings,
                 MIN_NOTIFICATION_AMOUNT, tasks, routed>>
  /\ UNCHANGED aux

\* make_rpc_call(getSignaturesForAddress): no data, or a list
CheckGetSignatures ==
  /\ check.pc = "rpc"
  /\ \/ check' = [check EXCEPT !.pc = "done"]
     \/ \E S \in SigLists :
          check' = [check EXCEPT !.pc = "load", !.signatures = S]
  /\ UNCHANGED <<monitored_wallets, transaction_history, settings,
                 MIN_NOTIFICATION_AMOUNT, tasks, routed>>
  /\ UNCHANGED aux

\* get_monitored_wallets_by_address, wallets[0], and the loop that finds
\* the new transactions
CheckLoadWallet ==
  /\ check.pc = "load"
  /\ \/ /\ ActiveRows(check.wallet_address) = {}
        /\ check' = [check EXCEPT !.pc = "done"]
     \/ \E wallets \in get_monitored_wallets_by_address(check.wallet_address) :
          /\ wallets /= <<>>
          /\ LET w   == monitored_wallets[wallets[1]]
                 new == FindNew(check.signatures, w.last_signature,
                                w.monitoring_start_time)
             IN check' =
                  [check EXCEPT
                     !.row = wallets[1],
                     !.last_signature = w.last_signature,
                     !.monitoring_start_time = w.monitoring_start_time,
                     !.fresh = {i \in ActiveRows(check.wallet_address) :
                                  monitored_wallets[i].last_signature = NULL},
                     !.new_transactions =
                        IF \/ IsFirstCheck(w.last_signature)
                           \/ MissingSignature(check.signatures,
                                               w.last_signature)
                        THEN <<>> ELSE new,
                     !.pc = IF MissingSignature(check.signatures,
                                                w.last_signature)
                            THEN "done"     \* except Exception: return
                            ELSE IF IsFirstCheck(w.last_signature) THEN "seed"
                            ELSE IF new = <<>> THEN "done" ELSE "advance"]
  /\ UNCHANGED <<monitored_wallets, transaction_history, settings,
                 MIN_NOTIFICATION_AMOUNT, tasks, routed>>
  /\ UNCHANGED aux

\* first check: save signatures[0] and return
CheckSeedCursor ==
  /\ check.pc = "seed"
  /\ monitored_wallets' =
       update_last_signature(check.wallet_address, check.signatures[1])
  /\ check' = [check EXCEPT !.pc = "done"]
  /\ UNCHANGED <<transaction_history, settings, MIN_NOTIFICATION_AMOUNT,
                 tasks, routed>>
  /\ UNCHANGED aux

\* new transactions: the cursor is written first
CheckAdvanceCursor ==
  /\ check.pc = "advance"
  /\ monitored_wallets' =
       update_last_signature(check.wallet_address,
                             CursorToWrite(check.signatures,
                                           check.new_transactions))
  /\ check' = [check EXCEPT !.pc = "spawn"]
  /\ UNCHANGED <<transaction_history, settings, MIN_NOTIFICATION_AMOUNT,
                 tasks, routed>>
  /\ UNCHANGED aux

\* asyncio.create_task for every new transaction, oldest first
CheckSpawn ==
  /\ check.pc = "spawn"
  /\ tasks' = SpawnedTasks(check.new_transactions,
                           check.monitoring_start_time)
  /\ check' = [check EXCEPT !.pc = "gather"]
  /\ UNCHANGED <<monitored_wallets, transaction_history, settings,
                 MIN_NOTIFICATION_AMOUNT, routed>>
  /\ UNCHANGED aux

\* (mutation) the tasks are created and not awaited
GatherReturns_AtOnce(transaction_tasks) == TRUE

\* await asyncio.gather(*transaction_tasks, return_exceptions=True)
\* returns when every task has finished
GatherReturns(transaction_tasks) ==
  \A k \in DOMAIN transaction_tasks : transaction_tasks[k].pc = "done"

\* asyncio.gather returns when every task has finished
CheckGather ==
  /\ check.pc = "gather"
  /\ GatherReturns(tasks)
  /\ check' = [check EXCEPT !.pc = "done"]
  /\ UNCHANGED <<monitored_wallets, transaction_history, settings,
                 MIN_NOTIFICATION_AMOUNT, tasks, routed>>
  /\ UNCHANGED aux

\* check_transactions_optimized returns to process_wallet_batch
CheckReturn ==
  /\ check.pc = "done"
  /\ check' = IdleCheck
  /\ tasks' = <<>>
  /\ UNCHANGED <<monitored_wallets, transaction_history, settings,
                 MIN_NOTIFICATION_AMOUNT, routed>>
  /\ UNCHANGED aux

\* ------------------------------------------------- per-signature tasks
\* is_transaction_already_notified(signature)
TaskCheckLedger(k) ==
  /\ tasks[k].pc = "ledger"
  /\ tasks' = [tasks EXCEPT ![k].pc =
                 IF is_transaction_already_notified(tasks[k].signature)
                 THEN "done" ELSE "wallets"]
  /\ UNCHANGED <<monitored_wallets, transaction_history, settings,
                 MIN_NOTIFICATION_AMOUNT, check, routed>>
  /\ UNCHANGED aux

\* get_monitored_wallets_by_address(wallet_address)
TaskLoadWallets(k) ==
  /\ tasks[k].pc = "wallets"
  /\ LET wallets == ActiveRows(check.wallet_address)
     IN tasks' = [tasks EXCEPT
                    ![k].pc = IF wallets = {} THEN "done" ELSE "rpc",
                    ![k].wallets = Cardinality(wallets)]
  /\ UNCHANGED <<monitored_wallets, transaction_history, settings,
                 MIN_NOTIFICATION_AMOUNT, check, routed>>
  /\ UNCHANGED aux

\* make_rpc_call(getTransaction), calculate_balance_change and the dust test
TaskGetTransaction(k) ==
  /\ tasks[k].pc = "rpc"
  /\ \/ tasks' = [tasks EXCEPT ![k].pc = "done"]
     \/ LET r == calculate_balance_change(
                    ChainTransaction(tasks[k].signature),
                    check.wallet_address)
        IN tasks' = [tasks EXCEPT
                       ![k].pc = "store",
                       ![k].amount = r.amount,
                       ![k].tx_type = r.tx_type,
                       ![k].dust = IsDust(r.amount, MIN_NOTIFICATION_AMOUNT)]
  /\ UNCHANGED <<monitored_wallets, transaction_history, settings,
                 MIN_NOTIFICATION_AMOUNT, check, routed>>
  /\ UNCHANGED aux

RECURSIVE DustInserts(_, _, _)
\* for wallet_info in wallets: add_transaction_record(..., dust)
DustInserts(th, wallets, signature) ==
  IF wallets = 0 THEN th
  ELSE DustInserts(add_transaction_record(th, signature, "dust"),
                   wallets - 1, signature)

\* the ledger writes: one insert per subscriber for dust, else the insert
\* for the first subscriber, which decides whether the task notifies
TaskStore(k) ==
  /\ tasks[k].pc = "store"
  /\ LET t == tasks[k]
     IN IF t.dust
        THEN /\ transaction_history' =
                  DustInserts(transaction_history, t.wallets, t.signature)
             /\ tasks' = [tasks EXCEPT ![k].pc = AfterDust]
        ELSE /\ transaction_history' =
                  add_transaction_record(transaction_history, t.signature,
                                         t.tx_type)
             /\ tasks' = [tasks EXCEPT ![k].pc =
                            AfterClaim(~InsertConflict(transaction_history,
                                                       t.signature))]
  /\ UNCHANGED <<monitored_wallets, settings, MIN_NOTIFICATION_AMOUNT,
                 check, routed>>
  /\ UNCHANGED aux

\* the callback registered by start_global_monitoring is invoked
TaskNotify(k) ==
  /\ tasks[k].pc = "notify"
  /\ routed' = [routed EXCEPT ![tasks[k].signature] = @ + 1]
  /\ check' = [check EXCEPT !.emitted = Append(@, k)]
  /\ tasks' = [tasks EXCEPT ![k].pc = "done"]
  /\ UNCHANGED <<monitored_wallets, transaction_history, settings,
                 MIN_NOTIFICATION_AMOUNT>>
  /\ UNCHANGED aux

\* ------------------------------------------------------------------ Next
Next ==
  \/ \E c \in Chats, a \in Accounts, now \in StartTimes : AddWallet(c, a, now)
  \/ \E c \in Chats, a \in Accounts : RemoveWallet(c, a)
  \/ Restart
  \/ CheckStart
  \/ CheckGetSignatures
  \/ CheckLoadWallet
  \/ CheckSeedCursor
  \/ CheckAdvanceCursor
  \/ CheckSpawn
  \/ CheckGather
  \/ CheckReturn
  \/ \E k \in DOMAIN tasks : TaskCheckLedger(k)
  \/ \E k \in DOMAIN tasks : TaskLoadWallets(k)
  \/ \E k \in DOMAIN tasks : TaskGetTransaction(k)
  \/ \E k \in DOMAIN tasks : TaskStore(k)
  \/ \E k \in DOMAIN tasks : TaskNotify(k)

Spec == Init /\ [][Next]_vars

\* ------------------------------------------- polling a growing chain
\* The account's transactions are signatures 1..chain.head, and the RPC node
\* answers getSignaturesForAddress with the newest of them, newest first
\* (limit entries at most).  chain.polled_head and chain.polled_rows record
\* the head and the active watches at the latest answered poll, and
\* chain.quiet says that the answer of the running check held nothing that
\* an earlier answer did not hold, under the same watches.
ChainList(head) ==
  [i \in 1..(IF head < MaxLen THEN head ELSE MaxLen) |-> head - i + 1]

\* a transaction of the account is confirmed on the chain
ChainGrows ==
  /\ chain.head < MaxSig
  /\ chain' = [chain EXCEPT !.head = @ + 1]
  /\ UNCHANGED <<monitored_wallets, transaction_history, settings,
                 MIN_NOTIFICATION_AMOUNT, check, tasks, routed>>
  /\ UNCHANGED notChain

\* make_rpc_call(getSignaturesForAddress) against the chain: no data, an
\* empty result (the check returns), or the newest signatures
CheckGetSignaturesChain ==
  /\ check.pc = "rpc"
  /\ \/ /\ check' = [check EXCEPT !.pc = "done"]
        /\ chain' = [chain EXCEPT !.quiet = FALSE]
     \/ /\ ChainList(chain.head) = <<>>
        /\ check' = [check EXCEPT !.pc = "done"]
        /\ chain' = [chain EXCEPT !.quiet = FALSE]
     \/ /\ ChainList(chain.head) /= <<>>
        /\ check' = [check EXCEPT !.pc = "load",
                                  !.signatures = ChainList(chain.head)]
        /\ chain' =
             [chain EXCEPT
                !.quiet = /\ chain.polled_head = chain.head
                          /\ chain.polled_rows
                               = ActiveRows(check.wallet_address),
                !.polled_head = chain.head,
                !.polled_rows = ActiveRows(check.wallet_address)]
  /\ UNCHANGED <<monitored_wallets, transaction_history, settings,
                 MIN_NOTIFICATION_AMOUNT, tasks, routed>>
  /\ UNCHANGED notChain

\* the process is restarted after a check has returned
RestartBetweenChecks ==
  /\ check.pc = "done"
  /\ Restart

ChainNext ==
  \/ \E c \in Chats, a \in Accounts, now \in StartTimes : AddWallet(c, a, now)
  \/ \E c \in Chats, a \in Accounts : RemoveWallet(c, a)
  \/ RestartBetweenChecks
  \/ ChainGrows
  \/ CheckStart
  \/ CheckGetSignaturesChain
  \/ CheckLoadWallet
  \/ CheckSeedCursor
  \/ CheckAdvanceCursor
  \/ CheckSpawn
  \/ CheckGather
  \/ CheckReturn
  \/ \E k \in DOMAIN tasks : TaskCheckLedger(k)
  \/ \E k \in DOMAIN tasks : TaskLoadWallets(k)
  \/ \E k \in DOMAIN tasks : TaskGetTransaction(k)
  \/ \E k \in DOMAIN tasks : TaskStore(k)
  \/ \E k \in DOMAIN tasks : TaskNotify(k)

ChainSpec == Init /\ [][ChainNext]_vars

\* ------------------------------------------------ notification router
\* send_transaction_notification, the callback of the scheduler.  Its
\* awaited calls are step boundaries, so the registry may change while a
\* notification is routed.  sent counts the send_message calls that
\* returned, per destination, and those that raised.
Subscribers == Chats \cup {3}

\* the module global is read from the environment when the process starts:
\* an id, or None when ID_CHAT is not set
RouterInit ==
  /\ monitored_wallets = <<>>
  /\ transaction_history = [s \in Sigs |-> <<>>]
  /\ settings = NoSetting
  /\ MIN_NOTIFICATION_AMOUNT = DEFAULT_MIN_NOTIFICATION_AMOUNT
  /\ check = IdleCheck
  /\ tasks = <<>>
  /\ routed = [s \in Sigs |-> 0]
  /\ chain = QuietChain
  /\ MONITORING_CHANNEL \in {NULL, SomeChannel}
  /\ router = IdleRouter
  /\ sent = NothingSent
  /\ adding = <<>>
  /\ rate_limiter = NewRateLimiter
  /\ rpc = IdleRpc
  /\ acquirers = NoAcquirers
  /\ filter = IdleFilter
  /\ classifier = IdleClassifier
  /\ sched = StoppedScheduler
  /\ health = SleepingHealth

\* any(wallet_info['chat_id'] == ADMIN_CHAT_ID ...)
admin_monitoring(wallets_monitoring) ==
  \E i \in wallets_monitoring : monitored_wallets[i].chat_id = ADMIN_CHAT_ID

\* any(wallet_info['chat_id'] != ADMIN_CHAT_ID ...)
regular_users_monitoring(wallets_monitoring) ==
  \E i \in wallets_monitoring : monitored_wallets[i].chat_id /= ADMIN_CHAT_ID

\* if MONITORING_CHANNEL: the channel branch sends only to a truthy id
ChannelConfigured(channel) == channel /= NULL

\* (mutation) every notification goes to the channel
SendsToChannel_Always(admin, regular) == TRUE

\* the destinations chosen by the if / elif chain
SendsToChannel(admin, regular) == regular
SendsToAdmin(admin, regular) == admin

\* process_single_transaction invokes the callback for a signature it has
\* stored as new, once (routed counts the invocations)
RouterStart(addr, sig) ==
  /\ router.pc = "idle"
  /\ Len(monitored_wallets) > 0
  /\ routed[sig] = 0
  /\ routed' = [routed EXCEPT ![sig] = @ + 1]
  /\ router' = [IdleRouter EXCEPT !.pc = "load", !.wallet_address = addr,
                                  !.signature = sig]
  /\ UNCHANGED <<monitored_wallets, transaction_history, settings,
                 MIN_NOTIFICATION_AMOUNT, check, tasks,
                 MONITORING_CHANNEL, sent>>
  /\ UNCHANGED notRouter

\* get_monitored_wallets_by_address: return when nobody watches, else
\* compute the two flags
RouterLoadWallets ==
  /\ router.pc = "load"
  /\ LET wallets_monitoring == ActiveRows(router.wallet_address)
     IN router' =
          [router EXCEPT
             !.pc = IF wallets_monitoring = {} THEN "done" ELSE "channel",
             !.admin_monitoring = admin_monitoring(wallets_monitoring),
             !.regular_users_monitoring =
                regular_users_monitoring(wallets_monitoring)]
  /\ UNCHANGED <<monitored_wallets, transaction_history, settings,
                 MIN_NOTIFICATION_AMOUNT, check, tasks, routed,
                 MONITORING_CHANNEL, sent>>
  /\ UNCHANGED notRouter

\* the send to the public channel (cases 1 and 3): skipped without a
\* channel id, and an exception of send_message is caught
RouterSendChannel ==
  /\ router.pc = "channel"
  /\ router' = [router EXCEPT !.pc = "admin"]
  /\ IF /\ SendsToChannel(router.admin_monitoring,
                          router.regular_users_monitoring)
        /\ ChannelConfigured(MONITORING_CHANNEL)
     THEN \/ sent' = [sent EXCEPT ![router.signature].channel = @ + 1]
          \/ sent' = [sent EXCEPT ![router.signature].failed = @ + 1]
     ELSE sent' = sent
  /\ UNCHANGED <<monitored_wallets, transaction_history, settings,
                 MIN_NOTIFICATION_AMOUNT, check, tasks, routed,
                 MONITORING_CHANNEL>>
  /\ UNCHANGED notRouter

\* the send to the administrator's private chat (cases 1 and 2)
RouterSendAdmin ==
  /\ router.pc = "admin"
  /\ router' = [router EXCEPT !.pc = "done"]
  /\ IF SendsToAdmin(router.admin_monitoring,
                     router.regular_users_monitoring)
     THEN \/ sent' = [sent EXCEPT ![router.signature].admin = @ + 1]
          \/ sent' = [sent EXCEPT ![router.signature].failed = @ + 1]
     ELSE sent' = sent
  /\ UNCHANGED <<monitored_wallets, transaction_history, settings,
                 MIN_NOTIFICATION_AMOUNT, check, tasks, routed,
                 MONITORING_CHANNEL>>
  /\ UNCHANGED notRouter

\* send_transaction_notification returns
RouterReturn ==
  /\ router.pc = "done"
  /\ router' = IdleRouter
  /\ UNCHANGED <<monitored_wallets, transaction_history, settings,
                 MIN_NOTIFICATION_AMOUNT, check, tasks, routed,
                 MONITORING_CHANNEL, sent>>
  /\ UNCHANGED notRouter

RouterNext ==
  \/ \E c \in Subscribers, a \in Accounts, now \in StartTimes :
        AddWallet(c, a, now)
  \/ \E c \in Subscribers, a \in Accounts : RemoveWallet(c, a)
  \/ \E a \in Accounts, sig \in Sigs : RouterStart(a, sig)
  \/ RouterLoadWallets
  \/ RouterSendChannel
  \/ RouterSendAdmin
  \/ RouterReturn

RouterSpec == RouterInit /\ [][RouterNext]_vars

\* ------------------------------------- registry commands, step by step
\* The command handlers run concurrently (concurrent_updates), and
\* add_wallet awaits between its look-up and its INSERT: adding holds the
\* calls that have passed the look-up.  The table has no uniqueness
\* constraint on (chat_id, wallet_address).
MaxAdds == 2      \* add_wallet calls in flight

\* existing_wallets = get_monitored_wallets(chat_id); the call goes on when
\* none of them has the address
AddWalletCheck(chat_id, addr) ==
  /\ Len(adding) < MaxAdds
  /\ \A i \in get_monitored_wallets(chat_id) :
        monitored_wallets[i].wallet_address /= addr
  /\ adding' = Append(adding, [chat_id |-> chat_id, wallet_address |-> addr])
  /\ UNCHANGED <<monitored_wallets, transaction_history, settings,
                 MIN_NOTIFICATION_AMOUNT, check, tasks, routed>>
  /\ UNCHANGED notRegistry

\* add_monitored_wallet: the INSERT of a call that passed the look-up
AddWalletInsert(k, now) ==
  /\ k \in DOMAIN adding
  /\ Len(monitored_wallets) < MaxRows
  /\ \A i \in DOMAIN monitored_wallets :
        monitored_wallets[i].monitoring_start_time <= now
  /\ monitored_wallets' =
       Append(monitored_wallets,
              [chat_id |-> adding[k].chat_id,
               wallet_address |-> adding[k].wallet_address,
               is_active |-> TRUE, last_signature |-> NULL,
               monitoring_start_time |-> now])
  /\ adding' = [i \in 1..(Len(adding) - 1) |->
                  IF i < k THEN adding[i] ELSE adding[i + 1]]
  /\ UNCHANGED <<transaction_history, settings, MIN_NOTIFICATION_AMOUNT,
                 check, tasks, routed>>
  /\ UNCHANGED notRegistry

\* transfer_all_wallets: UPDATE ... SET chat_id = $1 WHERE is_active = TRUE
TransferAll(target_chat_id) ==
  /\ \E i \in DOMAIN monitored_wallets :
        /\ IsActive(monitored_wallets[i])
        /\ monitored_wallets[i].chat_id /= target_chat_id
  /\ monitored_wallets' =
       [i \in DOMAIN monitored_wallets |->
          IF IsActive(monitored_wallets[i])
          THEN [monitored_wallets[i] EXCEPT !.chat_id = target_chat_id]
          ELSE monitored_wallets[i]]
  /\ UNCHANGED <<transaction_history, settings, MIN_NOTIFICATION_AMOUNT,
                 check, tasks, routed>>
  /\ UNCHANGED aux

RegistryNext ==
  \/ \E c \in Chats, a \in Accounts : AddWalletCheck(c, a)
  \/ \E k \in DOMAIN adding, now \in StartTimes : AddWalletInsert(k, now)
  \/ \E c \in Chats, a \in Accounts : RemoveWallet(c, a)
  \/ \E c \in Chats : TransferAll(c)

RegistrySpec == Init /\ [][RegistryNext]_vars

\* ------------------------------------------- scheduler and supervisor
\* global_monitor_task, the loop of start_global_monitoring, with
\* process_wallet_batch, and health_monitor.  sched.key says that
\* monitoring_tasks has the entry 'global_monitor', sched.task is the state
\* of the asyncio task of that entry.  sched.polled lists the accounts for
\* which the running cycle has called check_transactions_optimized, whose
\* first statement is the getSignaturesForAddress call.
SchedAccounts == {"A", "B"}

\* (mutation) the sizes of fast and careful mode exchanged
get_optimal_batch_size_Swapped(performance_mode) ==
  CASE performance_mode = "fast" -> BATCH_SIZE - 3
    [] performance_mode = "careful" -> BATCH_SIZE + 4
    [] OTHER -> BATCH_SIZE

\* get_optimal_batch_size (ADAPTIVE_BATCH_SIZING is True)
get_optimal_batch_size(performance_mode) ==
  CASE performance_mode = "fast" ->
         IF BATCH_SIZE + 4 < 20 THEN BATCH_SIZE + 4 ELSE 20
    [] performance_mode = "careful" ->
         IF BATCH_SIZE - 3 > 6 THEN BATCH_SIZE - 3 ELSE 6
    [] OTHER -> BATCH_SIZE

\* (mutation) a slice one element longer
Batch_Overlapping(all_wallets, i, current_batch_size) ==
  SubSeq(all_wallets, i + 1,
         IF i + current_batch_size + 1 < Len(all_wallets)
         THEN i + current_batch_size + 1 ELSE Len(all_wallets))

\* batch = all_wallets[i:i + current_batch_size]
Batch(all_wallets, i, current_batch_size) ==
  SubSeq(all_wallets, i + 1,
         IF i + current_batch_size < Len(all_wallets)
         THEN i + current_batch_size ELSE Len(all_wallets))

\* (mutation) the task is created at every call
start_global_monitoring_Always(s) ==
  [StoppedScheduler EXCEPT !.key = TRUE, !.task = "running", !.pc = "cycle",
                           !.running = s.running + 1,
                           !.callers = s.callers]

\* start_global_monitoring: the task is created only when monitoring_tasks
\* has no 'global_monitor' entry
start_global_monitoring(s) ==
  IF ~s.key
  THEN [StoppedScheduler EXCEPT !.key = TRUE, !.task = "running",
                                !.pc = "cycle",
                                !.running = s.running + 1,
                                !.callers = s.callers]
  ELSE s

\* start_bot has called start_global_monitoring and started health_monitor
SchedInit ==
  /\ monitored_wallets = <<>>
  /\ transaction_history = [s \in Sigs |-> <<>>]
  /\ settings = NoSetting
  /\ MIN_NOTIFICATION_AMOUNT = DEFAULT_MIN_NOTIFICATION_AMOUNT
  /\ check = IdleCheck
  /\ tasks = <<>>
  /\ routed = [s \in Sigs |-> 0]
  /\ chain = QuietChain
  /\ MONITORING_CHANNEL = SomeChannel
  /\ router = IdleRouter
  /\ sent = NothingSent
  /\ adding = <<>>
  /\ rate_limiter = NewRateLimiter
  /\ rpc = IdleRpc
  /\ acquirers = NoAcquirers
  /\ filter = IdleFilter
  /\ classifier = IdleClassifier
  /\ sched = start_global_monitoring(StoppedScheduler)
  /\ health = SleepingHealth

\* the top of the loop: all_wallets = get_all_monitored_wallets(); an empty
\* list sends the loop to its sleep, otherwise the batch size of the cycle
\* is read from the rate limiter and the first batch is taken
SchedCycleStart ==
  /\ sched.task = "running"
  /\ sched.pc = "cycle"
  /\ sched' = [sched EXCEPT
                 !.all_wallets = get_all_monitored_wallets,
                 !.i = 0,
                 !.batch =
                    IF get_all_monitored_wallets = <<>> THEN <<>>
                    ELSE Batch(get_all_monitored_wallets, 0,
                               get_optimal_batch_size(
                                 rate_limiter.performance_mode)),
                 !.j = 1,
                 !.batches =
                    IF get_all_monitored_wallets = <<>> THEN <<>>
                    ELSE <<Batch(get_all_monitored_wallets, 0,
                                 get_optimal_batch_size(
                                   rate_limiter.performance_mode))>>,
                 !.polled = <<>>,
                 !.raised = FALSE,
                 !.aborted = FALSE,
                 !.current_batch_size =
                    IF get_all_monitored_wallets = <<>> THEN @
                    ELSE get_optimal_batch_size(rate_limiter.performance_mode),
                 !.batch_sizes =
                    IF get_all_monitored_wallets = <<>> THEN @
                    ELSE [@ EXCEPT ![rate_limiter.performance_mode] =
                            get_optimal_batch_size(
                              rate_limiter.performance_mode)],
                 !.pc = IF get_all_monitored_wallets = <<>>
                        THEN "sleep" ELSE "next"]
  /\ UNCHANGED <<monitored_wallets, transaction_history, settings,
                 MIN_NOTIFICATION_AMOUNT, check, tasks, routed, health>>
  /\ UNCHANGED notSched

\* process_wallet_batch: check_transactions_optimized for the next entry
SchedCheckStart ==
  /\ sched.task = "running"
  /\ sched.pc = "next"
  /\ check.pc = "idle"
  /\ check' = [IdleCheck EXCEPT
                 !.pc = "rpc",
                 !.wallet_address = sched.batch[sched.j],
                 !.orphan = \A i \in DOMAIN monitored_wallets :
                    monitored_wallets[i].is_active =>
                      monitored_wallets[i].wallet_address
                        # sched.batch[sched.j]]
  /\ sched' = [sched EXCEPT
                 !.pc = "check",
                 !.polled = Append(@, sched.batch[sched.j])]
  /\ UNCHANGED <<monitored_wallets, transaction_history, settings,
                 MIN_NOTIFICATION_AMOUNT, tasks, routed, health>>
  /\ UNCHANGED notSched

\* an exception in the body of check_transactions_optimized is caught by
\* its except clause, and the call returns
CheckRaises ==
  /\ sched.pc = "check"
  /\ check.pc \in {"load", "seed", "advance"}
  /\ check' = [check EXCEPT !.pc = "done"]
  /\ sched' = [sched EXCEPT !.raised = TRUE]
  /\ UNCHANGED <<monitored_wallets, transaction_history, settings,
                 MIN_NOTIFICATION_AMOUNT, tasks, routed, health>>
  /\ UNCHANGED notSched

\* (mutation) the loop over the batch stops at the first failed check
BatchContinues_Stops(raised) == ~raised

\* the for loop of process_wallet_batch goes on to the next wallet whether
\* the check returned or raised
BatchContinues(raised) == TRUE

\* the check has returned: the next wallet of the batch, the sleep before
\* the next batch (if i + current_batch_size < len(all_wallets)), or the
\* sleep that ends the cycle
SchedCheckReturn ==
  /\ sched.task = "running"
  /\ sched.pc = "check"
  /\ check.pc = "done"
  /\ check' = IdleCheck
  /\ tasks' = <<>>
  /\ sched' = IF /\ sched.j < Len(sched.batch)
                 /\ BatchContinues(sched.raised)
              THEN [sched EXCEPT !.j = @ + 1, !.pc = "next"]
              ELSE IF sched.i + sched.current_batch_size
                        < Len(sched.all_wallets)
                   THEN [sched EXCEPT !.pc = "batch_sleep"]
                   ELSE [sched EXCEPT !.pc = "sleep"]
  /\ UNCHANGED <<monitored_wallets, transaction_history, settings,
                 MIN_NOTIFICATION_AMOUNT, routed, health>>
  /\ UNCHANGED notSched

\* asyncio.sleep(dynamic_delay) between two batches returns: the next
\* value of range(0, len(all_wallets), current_batch_size) and its slice
SchedBatchSleepDone ==
  /\ sched.task = "running"
  /\ sched.pc = "batch_sleep"
  /\ sched' = [sched EXCEPT
                 !.i = @ + sched.current_batch_size,
                 !.batch = Batch(sched.all_wallets,
                                 sched.i + sched.current_batch_size,
                                 sched.current_batch_size),
                 !.j = 1,
                 !.batches =
                    Append(@, Batch(sched.all_wallets,
                                    sched.i + sched.current_batch_size,
                                    sched.current_batch_size)),
                 !.pc = "next"]
  /\ UNCHANGED <<monitored_wallets, transaction_history, settings,
                 MIN_NOTIFICATION_AMOUNT, check, tasks, routed, health>>
  /\ UNCHANGED notSched

\* except Exception: log, sleep POLLING_INTERVAL, and loop
AfterCycleException == "sleep"

\* an exception raised in the cycle outside the checks
SchedCycleRaises ==
  /\ sched.task = "running"
  /\ sched.pc \in {"cycle", "next"}
  /\ sched' = [sched EXCEPT
                 !.pc = AfterCycleException,
                 !.aborted = TRUE,
                 !.task = IF AfterCycleException = "sleep"
                          THEN "running" ELSE "done",
                 !.running = IF AfterCycleException = "sleep"
                             THEN @ ELSE @ - 1]
  /\ UNCHANGED <<monitored_wallets, transaction_history, settings,
                 MIN_NOTIFICATION_AMOUNT, check, tasks, routed, health>>
  /\ UNCHANGED notSched

\* asyncio.sleep(POLLING_INTERVAL) returns
SchedSleepDone ==
  /\ sched.task = "running"
  /\ sched.pc = "sleep"
  /\ sched' = [sched EXCEPT !.pc = "cycle"]
  /\ UNCHANGED <<monitored_wallets, transaction_history, settings,
                 MIN_NOTIFICATION_AMOUNT, check, tasks, routed, health>>
  /\ UNCHANGED notSched

\* the task is cancelled (CancelledError: break) or ends on an error that
\* is not an Exception; the check it was awaiting and the tasks gathered
\* by that check end with it.  The entry stays in monitoring_tasks.
SchedulerDies ==
  /\ sched.task = "running"
  /\ sched' = [sched EXCEPT !.task = "done", !.pc = "", !.cancelled = TRUE,
                             !.running = @ - 1]
  /\ check' = IdleCheck
  /\ tasks' = <<>>
  /\ UNCHANGED <<monitored_wallets, transaction_history, settings,
                 MIN_NOTIFICATION_AMOUNT, routed, health>>
  /\ UNCHANGED notSched

\* health_monitor wakes after its 60 s sleep, counts the entries whose
\* task is not done, and awaits get_all_monitored_wallets
HealthWake ==
  /\ health.pc = "sleep"
  /\ health' = [pc |-> "db",
                active_tasks |-> IF sched.key /\ sched.task = "running"
                                 THEN 1 ELSE 0]
  /\ UNCHANGED <<monitored_wallets, transaction_history, settings,
                 MIN_NOTIFICATION_AMOUNT, check, tasks, routed, sched>>
  /\ UNCHANGED notSched

\* the two tests of health_monitor, each followed by a call of
\* start_global_monitoring, and the return to the sleep
HealthRestart ==
  /\ health.pc = "db"
  /\ health' = SleepingHealth
  /\ LET first  == IF ~sched.key \/ sched.task = "done"
                   THEN start_global_monitoring(sched) ELSE sched
         second == IF /\ Len(get_all_monitored_wallets) > 0
                      /\ health.active_tasks = 0
                   THEN start_global_monitoring(first) ELSE first
     IN sched' = second
  /\ UNCHANGED <<monitored_wallets, transaction_history, settings,
                 MIN_NOTIFICATION_AMOUNT, check, tasks, routed>>
  /\ UNCHANGED notSched

SchedNext ==
  \/ \E c \in Chats, a \in SchedAccounts, now \in StartTimes :
        AddWallet(c, a, now)
  \/ \E c \in Chats, a \in SchedAccounts : RemoveWallet(c, a)
  \/ ChainGrows
  \/ SchedCycleStart
  \/ SchedCheckStart
  \/ CheckGetSignaturesChain
  \/ CheckLoadWallet
  \/ CheckRaises
  \/ CheckSeedCursor
  \/ CheckAdvanceCursor
  \/ CheckSpawn
  \/ CheckGather
  \/ SchedCheckReturn
  \/ \E k \in DOMAIN tasks : TaskCheckLedger(k)
  \/ \E k \in DOMAIN tasks : TaskLoadWallets(k)
  \/ \E k \in DOMAIN tasks : TaskGetTransaction(k)
  \/ \E k \in DOMAIN tasks : TaskStore(k)
  \/ \E k \in DOMAIN tasks : TaskNotify(k)
  \/ SchedCycleRaises
  \/ SchedSleepDone
  \/ SchedulerDies
  \/ HealthWake
  \/ HealthRestart

SchedSpec == SchedInit /\ [][SchedNext]_vars

\* ------------------------------------- the callers of the scheduler start
\* start_global_monitoring is called by start_bot, by start_monitoring_wallet
\* at the end of every successful add_wallet, and by health_monitor.
StartInit ==
  /\ monitored_wallets = <<>>
  /\ transaction_history = [s \in Sigs |-> <<>>]
  /\ settings = NoSetting
  /\ MIN_NOTIFICATION_AMOUNT = DEFAULT_MIN_NOTIFICATION_AMOUNT
  /\ check = IdleCheck
  /\ tasks = <<>>
  /\ routed = [s \in Sigs |-> 0]
  /\ chain = QuietChain
  /\ MONITORING_CHANNEL = SomeChannel
  /\ router = IdleRouter
  /\ sent = NothingSent
  /\ adding = <<>>
  /\ rate_limiter = NewRateLimiter
  /\ rpc = IdleRpc
  /\ acquirers = NoAcquirers
  /\ filter = IdleFilter
  /\ classifier = IdleClassifier
  /\ sched = [start_global_monitoring(StoppedScheduler) EXCEPT
                !.callers = {"startup"}]
  /\ health = SleepingHealth

\* add_wallet: the row is inserted, then start_monitoring_wallet calls
\* start_global_monitoring
StartAddWallet(chat_id, addr, now) ==
  /\ Len(monitored_wallets) < MaxRows
  /\ \A i \in DOMAIN monitored_wallets :
        monitored_wallets[i].monitoring_start_time <= now
  /\ \A i \in get_monitored_wallets(chat_id) :
        monitored_wallets[i].wallet_address /= addr
  /\ monitored_wallets' =
       Append(monitored_wallets,
              [chat_id |-> chat_id, wallet_address |-> addr,
               is_active |-> TRUE, last_signature |-> NULL,
               monitoring_start_time |-> now])
  /\ sched' = [start_global_monitoring(sched) EXCEPT
                 !.callers = @ \cup {"add"}]
  /\ UNCHANGED <<transaction_history, settings, MIN_NOTIFICATION_AMOUNT,
                 check, tasks, routed, health>>
  /\ UNCHANGED notSched

\* the tick of health_monitor, with the origin of its calls kept
StartHealthRestart ==
  /\ health.pc = "db"
  /\ health' = SleepingHealth
  /\ LET one    == ~sched.key \/ sched.task = "done"
         two    == /\ Len(get_all_monitored_wallets) > 0
                   /\ health.active_tasks = 0
         first  == IF one THEN start_global_monitoring(sched) ELSE sched
         second == IF two THEN start_global_monitoring(first) ELSE first
     IN sched' = [second EXCEPT
                    !.callers = IF one \/ two THEN @ \cup {"supervisor"}
                                ELSE @]
  /\ UNCHANGED <<monitored_wallets, transaction_history, settings,
                 MIN_NOTIFICATION_AMOUNT, check, tasks, routed>>
  /\ UNCHANGED notSched

StartNext ==
  \/ \E c \in Chats, a \in SchedAccounts, now \in StartTimes :
        StartAddWallet(c, a, now)
  \/ \E c \in Chats, a \in SchedAccounts : RemoveWallet(c, a)
  \/ SchedCycleStart
  \/ SchedCheckStart
  \/ CheckGetSignaturesChain
  \/ SchedCheckReturn
  \/ SchedCycleRaises
  \/ SchedSleepDone
  \/ SchedulerDies
  \/ HealthWake
  \/ StartHealthRestart

StartSpec == StartInit /\ [][StartNext]_vars

\* ------------------------------------- rate limiter and make_rpc_call
\* SmartRateLimiter and one running SolanaMonitor.make_rpc_call.  Every
\* call of make_rpc_call goes acquire -> session.post -> report -> (wait ->
\* next attempt | return).  Here the only time that is taken to pass is the
\* idle time between two calls (LimiterTimePasses), which is enough to age
\* every kept request out of the window; the sleeps themselves are timed
\* in the window specification further down.
MaxWindow == 23      \* acquire is not taken with more kept requests
MaxStorm  == 8       \* rpc.storm counts up to this many 429 answers in a row

\* d * num / den, in whole units
Scaled(d, num, den) == (d * num) \div den

\* max(MIN_DELAY, d)
AtLeastMinDelay(d) == IF d < MIN_DELAY THEN MIN_DELAY ELSE d

AtMostMaxDelay_Uncapped(d) == d

\* min(MAX_DELAY, d)
AtMostMaxDelay(d) == IF d > MAX_DELAY THEN MAX_DELAY ELSE d

\* the filter of acquire: current_time - t < 60
InWindow(age) == age < WINDOW

\* (mutation) acquire leaves the mode alone within 30 s of a 429
acquire_After429(rl) ==
  LET recent_requests ==
        Append(SelectSeq(rl.recent_requests, InWindow), 0)
      current_rate == Len(recent_requests)
      kept == [rl EXCEPT !.recent_requests = recent_requests]
  IN  IF rl.last_429_time # NoTime /\ rl.last_429_time < 30 * Second
      THEN kept
      ELSE IF current_rate * 10 > MAX_RPC_CALLS_PER_SECOND * 9
      THEN [kept EXCEPT
              !.current_delay = IF @ < Second \div 2 THEN Second \div 2 ELSE @,
              !.performance_mode = "careful"]
      ELSE IF current_rate * 10 < MAX_RPC_CALLS_PER_SECOND * 7
           THEN [kept EXCEPT !.performance_mode = "fast"]
           ELSE [kept EXCEPT !.performance_mode = "normal"]

\* acquire, up to its sleep: trims the window, appends current_time (age
\* 0), and sets mode and delay from the number of kept requests.
\* current_rate > 25 * 0.9 and current_rate < 25 * 0.7 are compared in tenths.
acquire(rl) ==
  LET recent_requests ==
        Append(SelectSeq(rl.recent_requests, InWindow), 0)
      current_rate == Len(recent_requests)
      kept == [rl EXCEPT !.recent_requests = recent_requests]
  IN  IF current_rate * 10 > MAX_RPC_CALLS_PER_SECOND * 9
      THEN [kept EXCEPT
              !.current_delay = IF @ < Second \div 2 THEN Second \div 2 ELSE @,
              !.performance_mode = "careful"]
      ELSE IF current_rate * 10 < MAX_RPC_CALLS_PER_SECOND * 7
           THEN [kept EXCEPT !.performance_mode = "fast"]
           ELSE [kept EXCEPT !.performance_mode = "normal"]

\* (mutation) the threshold of 5 in every mode
on_success_Threshold5(rl) ==
  LET consecutive_successes == rl.consecutive_successes + 1
  IN  IF consecutive_successes >= 5
      THEN [rl EXCEPT
              !.current_delay =
                 IF rl.performance_mode = "fast"
                 THEN AtLeastMinDelay(Scaled(@, 9, 10))
                 ELSE AtLeastMinDelay(Scaled(@, 95, 100)),
              !.consecutive_successes = 0]
      ELSE [rl EXCEPT !.consecutive_successes = consecutive_successes]

\* on_success
on_success(rl) ==
  LET consecutive_successes == rl.consecutive_successes + 1
      reduction_threshold ==
        IF rl.performance_mode = "fast"
        THEN SUCCESS_THRESHOLD_FOR_SPEEDUP ELSE 5
  IN  IF consecutive_successes >= reduction_threshold
      THEN [rl EXCEPT
              !.current_delay =
                 IF rl.performance_mode = "fast"
                 THEN AtLeastMinDelay(Scaled(@, 9, 10))
                 ELSE AtLeastMinDelay(Scaled(@, 95, 100)),  \* DELAY_REDUCTION_FACTOR
              !.consecutive_successes = 0]
      ELSE [rl EXCEPT !.consecutive_successes = consecutive_successes]

Recent429_Never(elapsed) == FALSE

\* the test of on_rate_limit_error, `self.last_429_time and
\* current_time - self.last_429_time < 30`, on the time elapsed since
\* last_429_time (the event loop's clock is never 0.0)
Recent429(elapsed) == elapsed < 30 * Second

\* on_rate_limit_error: last_429_time is assigned current_time (age 0)
\* before the test reads it, so the test sees the time elapsed since this
\* assignment.
on_rate_limit_error(rl) ==
  LET stamped == [rl EXCEPT !.consecutive_successes = 0,
                            !.last_429_time = 0]
      elapsed == stamped.last_429_time
  IN  IF stamped.last_429_time # NoTime /\ Recent429(elapsed)
      THEN [stamped EXCEPT
              !.current_delay = AtMostMaxDelay(Scaled(@, 18, 10)),
              !.performance_mode = "careful"]
      ELSE [stamped EXCEPT                               \* BACKOFF_MULTIPLIER
              !.current_delay = AtMostMaxDelay(Scaled(@, 13, 10))]

\* on_network_error
on_network_error(rl) ==
  [rl EXCEPT !.consecutive_successes = 0,
             !.current_delay = AtMostMaxDelay(Scaled(@, 12, 10))]

\* What one attempt of make_rpc_call can meet after acquire.
Outcomes ==
  {"200", "429", "5xx", "other status", "timeout", "client error",
   "other exception"}

\* the report make_rpc_call makes for an outcome, "" for none
ReportFor(outcome) ==
  CASE outcome = "200" -> "on_success"
    [] outcome = "429" -> "on_rate_limit_error"
    [] outcome \in {"5xx", "timeout", "client error"} -> "on_network_error"
    [] OTHER -> ""

\* the effect of a report on the limiter
Reported(report, rl) ==
  CASE report = "on_success" -> on_success(rl)
    [] report = "on_rate_limit_error" -> on_rate_limit_error(rl)
    [] report = "on_network_error" -> on_network_error(rl)
    [] OTHER -> rl

\* whether make_rpc_call goes on to another attempt after the outcome:
\* a 200 and an unexpected status return at once, the others `continue`
\* while attempt < max_retries - 1
Retries_OnceMore(outcome, attempt) ==
  /\ outcome \notin {"200", "other status"}
  /\ attempt < MAX_RETRIES

Retries(outcome, attempt) ==
  /\ outcome \notin {"200", "other status"}
  /\ attempt < MAX_RETRIES - 1

\* what make_rpc_call returns when it returns after the outcome: `data`
\* after a 200, None in every other branch
ReturnFor(outcome) == IF outcome = "200" THEN "data" ELSE "null"

\* make_rpc_call is called.  A call is started only while the window has
\* room for the acquires of all its attempts.
RpcCall ==
  /\ rpc.pc = "idle"
  /\ Len(SelectSeq(rate_limiter.recent_requests, InWindow)) + MAX_RETRIES
       <= MaxWindow
  /\ rpc' = [rpc EXCEPT !.pc = "acquire", !.attempt = 0, !.reports = 0]
  /\ UNCHANGED <<monitored_wallets, transaction_history, settings,
                 MIN_NOTIFICATION_AMOUNT, check, tasks, routed,
                 rate_limiter, notLimiter>>

\* await self.rate_limiter.acquire(), up to the sleep it makes with the
\* lock held
RpcAcquire ==
  /\ rpc.pc = "acquire"
  /\ rate_limiter.lock = NULL
  /\ Len(SelectSeq(rate_limiter.recent_requests, InWindow)) < MaxWindow
  /\ rate_limiter' = [acquire(rate_limiter) EXCEPT !.lock = 1]
  /\ rpc' = [rpc EXCEPT !.pc = "sleep", !.reports = 0]
  /\ UNCHANGED <<monitored_wallets, transaction_history, settings,
                 MIN_NOTIFICATION_AMOUNT, check, tasks, routed, notLimiter>>

\* asyncio.sleep(self.current_delay) returns and acquire leaves the lock
RpcSleepDone ==
  /\ rpc.pc = "sleep"
  /\ rate_limiter' = [rate_limiter EXCEPT !.lock = NULL]
  /\ rpc' = [rpc EXCEPT !.pc = "post"]
  /\ UNCHANGED <<monitored_wallets, transaction_history, settings,
                 MIN_NOTIFICATION_AMOUNT, check, tasks, routed, notLimiter>>

\* session.post answers or raises, and the branch taken for it runs up to
\* its sleep or its return
RpcOutcome(outcome) ==
  /\ rpc.pc = "post"
  /\ rate_limiter.lock = NULL
  /\ rate_limiter' = Reported(ReportFor(outcome), rate_limiter)
  /\ rpc' = [rpc EXCEPT
       !.pc = IF Retries(outcome, rpc.attempt) THEN "wait" ELSE "return",
       !.result = IF Retries(outcome, rpc.attempt) THEN "pending"
                  ELSE ReturnFor(outcome),
       !.reports = IF ReportFor(outcome) = "" THEN @ ELSE @ + 1,
       !.storm = IF outcome # "429" THEN 0
                 ELSE IF @ < MaxStorm THEN @ + 1 ELSE @]
  /\ UNCHANGED <<monitored_wallets, transaction_history, settings,
                 MIN_NOTIFICATION_AMOUNT, check, tasks, routed, notLimiter>>

\* the wait before the retry ends: next iteration of the for loop
RpcRetry ==
  /\ rpc.pc = "wait"
  /\ rpc' = [rpc EXCEPT !.pc = "acquire", !.attempt = @ + 1]
  /\ UNCHANGED <<monitored_wallets, transaction_history, settings,
                 MIN_NOTIFICATION_AMOUNT, check, tasks, routed,
                 rate_limiter, notLimiter>>

\* make_rpc_call returns
RpcReturn ==
  /\ rpc.pc = "return"
  /\ rpc' = [rpc EXCEPT !.pc = "idle", !.result = "pending"]
  /\ UNCHANGED <<monitored_wallets, transaction_history, settings,
                 MIN_NOTIFICATION_AMOUNT, check, tasks, routed,
                 rate_limiter, notLimiter>>

\* no call is made for a minute: every kept request is now 60 s old
LimiterTimePasses ==
  /\ rpc.pc = "idle"
  /\ \E i \in DOMAIN rate_limiter.recent_requests :
       InWindow(rate_limiter.recent_requests[i])
  /\ rate_limiter' = [rate_limiter EXCEPT
       !.recent_requests = [i \in DOMAIN @ |-> WINDOW],
       !.last_429_time = IF @ = NoTime THEN NoTime ELSE WINDOW]
  /\ UNCHANGED <<monitored_wallets, transaction_history, settings,
                 MIN_NOTIFICATION_AMOUNT, check, tasks, routed, rpc,
                 notLimiter>>

LimiterNext ==
  \/ RpcCall
  \/ RpcAcquire
  \/ RpcSleepDone
  \/ \E outcome \in Outcomes : RpcOutcome(outcome)
  \/ RpcRetry
  \/ RpcReturn
  \/ LimiterTimePasses

LimiterSpec == Init /\ [][LimiterNext]_vars

\* Calls of make_rpc_call made one after the other inside one window, with
\* the scheduling of the event loop: a coroutine that can go on does go
\* on, asyncio.sleep returns, and session.post (timeout=20) answers or
\* raises.
RetryNext ==
  \/ RpcCall
  \/ RpcAcquire
  \/ RpcSleepDone
  \/ \E outcome \in Outcomes : RpcOutcome(outcome)
  \/ RpcRetry
  \/ RpcReturn

RetrySpec ==
  /\ Init
  /\ [][RetryNext]_vars
  /\ WF_vars(RpcAcquire)
  /\ WF_vars(RpcSleepDone)
  /\ WF_vars(\E outcome \in Outcomes : RpcOutcome(outcome))
  /\ WF_vars(RpcRetry)
  /\ WF_vars(RpcReturn)

\* --------------------------------------------- the window of acquire
\* Concurrent callers of acquire() and the time their sleeps take.  A
\* caller waits for self.lock ("lock"), runs acquire up to its sleep and
\* sleeps with the lock held ("sleep"), and leaves.  The sleep takes
\* current_delay, the least time asyncio.sleep can take, and ages every
\* kept request by that much.  The delay the limiter has when the callers
\* arrive is any of DelaySamples.
DelaySamples == {MIN_DELAY, BASE_DELAY, MAX_DELAY}

WindowInit ==
  /\ monitored_wallets = <<>>
  /\ transaction_history = [s \in Sigs |-> <<>>]
  /\ settings = NoSetting
  /\ MIN_NOTIFICATION_AMOUNT = DEFAULT_MIN_NOTIFICATION_AMOUNT
  /\ check = IdleCheck
  /\ tasks = <<>>
  /\ routed = [s \in Sigs |-> 0]
  /\ chain = QuietChain
  /\ MONITORING_CHANNEL = SomeChannel
  /\ router = IdleRouter
  /\ sent = NothingSent
  /\ adding = <<>>
  /\ \E d \in DelaySamples :
       rate_limiter = [NewRateLimiter EXCEPT !.current_delay = d]
  /\ rpc = IdleRpc
  /\ acquirers = NoAcquirers
  /\ filter = IdleFilter
  /\ classifier = IdleClassifier
  /\ sched = StoppedScheduler
  /\ health = SleepingHealth

LockHeldInSleep_No == FALSE

\* `async with self.lock:` encloses the asyncio.sleep of acquire
LockHeldInSleep == TRUE

\* the age of a time kept by the limiter after dt more units of time
AgedTime(t, dt) ==
  IF t = NoTime THEN NoTime
  ELSE IF t + dt > WINDOW THEN WINDOW ELSE t + dt

\* the ages after dt more units of time
Aged(recent_requests, dt) ==
  [i \in DOMAIN recent_requests |->
     IF recent_requests[i] + dt > WINDOW THEN WINDOW
     ELSE recent_requests[i] + dt]

\* caller c calls acquire()
AcquireCall(c) ==
  /\ acquirers[c] = "out"
  /\ acquirers' = [acquirers EXCEPT ![c] = "lock"]
  /\ UNCHANGED <<rate_limiter, notWindow>>

\* caller c gets the lock and runs acquire up to its sleep
AcquireEnter(c) ==
  /\ acquirers[c] = "lock"
  /\ rate_limiter.lock = NULL
  /\ rate_limiter' = [acquire(rate_limiter) EXCEPT
       !.lock = IF LockHeldInSleep THEN c ELSE NULL]
  /\ acquirers' = [acquirers EXCEPT ![c] = "sleep"]
  /\ UNCHANGED notWindow

\* the sleep of caller c ends after current_delay and acquire returns
AcquireSleepDone(c) ==
  /\ acquirers[c] = "sleep"
  /\ rate_limiter' = [rate_limiter EXCEPT
       !.recent_requests = Aged(@, rate_limiter.current_delay),
       !.last_429_time = AgedTime(@, rate_limiter.current_delay),
       !.lock = IF @ = c THEN NULL ELSE @]
  /\ acquirers' = [acquirers EXCEPT ![c] = "out"]
  /\ UNCHANGED notWindow

\* nobody calls acquire for a minute
WindowTimePasses ==
  /\ acquirers = NoAcquirers
  /\ \E i \in DOMAIN rate_limiter.recent_requests :
       InWindow(rate_limiter.recent_requests[i])
  /\ rate_limiter' = [rate_limiter EXCEPT
       !.recent_requests = Aged(@, WINDOW),
       !.last_429_time = AgedTime(@, WINDOW)]
  /\ UNCHANGED <<acquirers, notWindow>>

WindowNext ==
  \/ \E c \in Callers : AcquireCall(c)
  \/ \E c \in Callers : AcquireEnter(c)
  \/ \E c \in Callers : AcquireSleepDone(c)
  \/ WindowTimePasses

WindowSpec == WindowInit /\ [][WindowNext]_vars

\* ------------------------------------------ the lock of the limiter
\* Concurrent tasks inside make_rpc_call: each waits for self.lock in
\* acquire ("lock"), sleeps in acquire ("sleep"), awaits session.post
\* ("post"), and then waits for self.lock in the report of the outcome
\* ("on_success", "on_rate_limit_error", "on_network_error").  The reports
\* have no await inside the lock, so a report that has the lock runs to
\* its end in one step.  No time is taken to pass here: the tasks go on
\* until the window holds MaxWindow requests.
Reports == {"on_success", "on_rate_limit_error", "on_network_error"}

\* await self.rate_limiter.acquire() is reached
TaskAcquireCall(c) ==
  /\ acquirers[c] = "out"
  /\ acquirers' = [acquirers EXCEPT ![c] = "lock"]
  /\ UNCHANGED <<rate_limiter, notWindow>>

\* the task gets the lock and runs acquire up to its sleep
TaskAcquireEnter(c) ==
  /\ acquirers[c] = "lock"
  /\ rate_limiter.lock = NULL
  /\ Len(SelectSeq(rate_limiter.recent_requests, InWindow)) < MaxWindow
  /\ rate_limiter' = [acquire(rate_limiter) EXCEPT
       !.lock = IF LockHeldInSleep THEN c ELSE NULL]
  /\ acquirers' = [acquirers EXCEPT ![c] = "sleep"]
  /\ UNCHANGED notWindow

\* asyncio.sleep(self.current_delay) returns, acquire leaves the lock and
\* the task goes on to session.post
TaskAcquireReturn(c) ==
  /\ acquirers[c] = "sleep"
  /\ rate_limiter' = [rate_limiter EXCEPT !.lock = IF @ = c THEN NULL ELSE @]
  /\ acquirers' = [acquirers EXCEPT ![c] = "post"]
  /\ UNCHANGED notWindow

\* session.post answers or raises: the task reaches the report of the
\* outcome, or has none to make
TaskPost(c, outcome) ==
  /\ acquirers[c] = "post"
  /\ acquirers' = [acquirers EXCEPT
       ![c] = IF ReportFor(outcome) = "" THEN "out" ELSE ReportFor(outcome)]
  /\ UNCHANGED <<rate_limiter, notWindow>>

\* the report gets the lock, runs and leaves it
TaskReport(c) ==
  /\ acquirers[c] \in Reports
  /\ rate_limiter.lock = NULL
  /\ rate_limiter' = Reported(acquirers[c], rate_limiter)
  /\ acquirers' = [acquirers EXCEPT ![c] = "out"]
  /\ UNCHANGED notWindow

LockNext ==
  \/ \E c \in Callers : TaskAcquireCall(c)
  \/ \E c \in Callers : TaskAcquireEnter(c)
  \/ \E c \in Callers : TaskAcquireReturn(c)
  \/ \E c \in Callers, outcome \in Outcomes : TaskPost(c, outcome)
  \/ \E c \in Callers : TaskReport(c)

LockSpec == Init /\ [][LockNext]_vars

\* ------------------------------------------- the notification threshold
\* filter_command, save_setting, and the start of the process with
\* load_filter_setting.  Amounts are in 1e-9 SOL units; str(new_amount) and
\* float(saved_amount) are inverse to each other on the finite amounts the
\* command accepts.
MaxAmount == 7
Amounts == {k * 50000 : k \in 0 .. MaxAmount}

\* /filter <amount>: refused unless the sender is the administrator and
\* the amount is not negative; the global is assigned, then save_setting
\* is awaited
FilterCommand(chat_id, new_amount) ==
  /\ filter.pc = "idle"
  /\ IF chat_id = ADMIN_CHAT_ID /\ new_amount >= 0
     THEN /\ MIN_NOTIFICATION_AMOUNT' = new_amount
          /\ filter' = [pc |-> "save", new_amount |-> new_amount]
     ELSE UNCHANGED <<MIN_NOTIFICATION_AMOUNT, filter>>
  /\ UNCHANGED <<settings, notFilter>>

\* save_setting: the upsert succeeds, or it raises and save_setting
\* returns False (the command then only tells the administrator)
FilterSave(success) ==
  /\ filter.pc = "save"
  /\ settings' = IF success THEN str(filter.new_amount) ELSE settings
  /\ filter' = IdleFilter
  /\ UNCHANGED <<MIN_NOTIFICATION_AMOUNT, notFilter>>

\* The process stops at any moment and starts again: the settings table
\* survives, the global is initialised to its default, and start_bot calls
\* load_filter_setting with that global as the default of get_setting.
FilterRestart(readable) ==
  /\ MIN_NOTIFICATION_AMOUNT' =
       float(get_setting(settings, readable,
                         str(DEFAULT_MIN_NOTIFICATION_AMOUNT)))
  /\ filter' = IdleFilter
  /\ UNCHANGED <<settings, notFilter>>

FilterNext ==
  \/ \E c \in Chats, a \in Amounts \cup {0 - 50000} : FilterCommand(c, a)
  \/ \E success \in BOOLEAN : FilterSave(success)
  \/ \E readable \in BOOLEAN : FilterRestart(readable)

FilterSpec == Init /\ [][FilterNext]_vars

\* ------------------------------------------- malformed RPC results
\* getSignaturesForAddress answered by a node whose entries may lack
\* their 'signature' (NULL in the list) or their 'blockTime' (signature 1).
AnyLists == UNION {[1..n -> Sigs \cup {NULL}] : n \in 1..MaxLen}

\* make_rpc_call(getSignaturesForAddress): None, data without 'result' or
\* with an empty one (the check returns), or a list
CheckGetSignaturesAny ==
  /\ check.pc = "rpc"
  /\ \/ check' = [check EXCEPT !.pc = "done"]
     \/ \E S \in AnyLists :
          check' = [check EXCEPT !.pc = "load", !.signatures = S]
  /\ UNCHANGED <<monitored_wallets, transaction_history, settings,
                 MIN_NOTIFICATION_AMOUNT, tasks, routed>>
  /\ UNCHANGED aux

MalformedNext ==
  \/ \E c \in Chats, a \in Accounts, now \in StartTimes : AddWallet(c, a, now)
  \/ \E c \in Chats, a \in Accounts : RemoveWallet(c, a)
  \/ CheckStart
  \/ CheckGetSignaturesAny
  \/ CheckLoadWallet
  \/ CheckSeedCursor
  \/ CheckAdvanceCursor
  \/ CheckSpawn
  \/ CheckGather
  \/ CheckReturn
  \/ \E k \in DOMAIN tasks : TaskCheckLedger(k)
  \/ \E k \in DOMAIN tasks : TaskLoadWallets(k)
  \/ \E k \in DOMAIN tasks : TaskGetTransaction(k)
  \/ \E k \in DOMAIN tasks : TaskStore(k)
  \/ \E k \in DOMAIN tasks : TaskNotify(k)

MalformedSpec == Init /\ [][MalformedNext]_vars

\* ------------------------------------------- the lists behind a cursor
\* The core with a record of what getSignaturesForAddress returned:
\* chain.firsts collects signatures[0] of every returned list (there is one
\* account).
CheckGetSignaturesRecorded ==
  /\ check.pc = "rpc"
  /\ \/ /\ check' = [check EXCEPT !.pc = "done"]
        /\ UNCHANGED chain
     \/ \E S \in SigLists :
          /\ check' = [check EXCEPT !.pc = "load", !.signatures = S]
          /\ chain' = [chain EXCEPT !.firsts = @ \cup {S[1]}]
  /\ UNCHANGED <<monitored_wallets, transaction_history, settings,
                 MIN_NOTIFICATION_AMOUNT, tasks, routed>>
  /\ UNCHANGED notChain

CursorNext ==
  \/ \E c \in Chats, a \in Accounts, now \in StartTimes : AddWallet(c, a, now)
  \/ \E c \in Chats, a \in Accounts : RemoveWallet(c, a)
  \/ CheckStart
  \/ CheckGetSignaturesRecorded
  \/ CheckLoadWallet
  \/ CheckSeedCursor
  \/ CheckAdvanceCursor
  \/ CheckSpawn
  \/ CheckGather
  \/ CheckReturn
  \/ \E k \in DOMAIN tasks : TaskCheckLedger(k)
  \/ \E k \in DOMAIN tasks : TaskLoadWallets(k)
  \/ \E k \in DOMAIN tasks : TaskGetTransaction(k)
  \/ \E k \in DOMAIN tasks : TaskStore(k)
  \/ \E k \in DOMAIN tasks : TaskNotify(k)

CursorSpec == Init /\ [][CursorNext]_vars

\* --------------------------------------- signatures without a result
\* Polling the growing chain with a record of the signatures for which
\* make_rpc_call(getTransaction) returned no data or an empty result.
TaskGetTransactionRecorded(k) ==
  /\ tasks[k].pc = "rpc"
  /\ \/ /\ tasks' = [tasks EXCEPT ![k].pc = "done"]
        /\ chain' = [chain EXCEPT !.dropped = @ \cup {tasks[k].signature}]
     \/ /\ LET r == calculate_balance_change(
                       ChainTransaction(tasks[k].signature),
                       check.wallet_address)
           IN tasks' = [tasks EXCEPT
                          ![k].pc = "store",
                          ![k].amount = r.amount,
                          ![k].tx_type = r.tx_type,
                          ![k].dust = IsDust(r.amount,
                                             MIN_NOTIFICATION_AMOUNT)]
        /\ UNCHANGED chain
  /\ UNCHANGED <<monitored_wallets, transaction_history, settings,
                 MIN_NOTIFICATION_AMOUNT, check, routed>>
  /\ UNCHANGED notChain

DropNext ==
  \/ \E c \in Chats, a \in Accounts, now \in StartTimes : AddWallet(c, a, now)
  \/ \E c \in Chats, a \in Accounts : RemoveWallet(c, a)
  \/ RestartBetweenChecks
  \/ ChainGrows
  \/ CheckStart
  \/ CheckGetSignaturesChain
  \/ CheckLoadWallet
  \/ CheckSeedCursor
  \/ CheckAdvanceCursor
  \/ CheckSpawn
  \/ CheckGather
  \/ CheckReturn
  \/ \E k \in DOMAIN tasks : TaskCheckLedger(k)
  \/ \E k \in DOMAIN tasks : TaskLoadWallets(k)
  \/ \E k \in DOMAIN tasks : TaskGetTransactionRecorded(k)
  \/ \E k \in DOMAIN tasks : TaskStore(k)
  \/ \E k \in DOMAIN tasks : TaskNotify(k)

DropSpec == Init /\ [][DropNext]_vars

\* ------------------------------------- a subscriber joins a watched account
\* Polling the growing chain with a record of the signatures that a first
\* check passes over: those newer than the cursor of some active watch of
\* the account and not newer than signatures[0], the cursor it writes.
SkippedBySeed(addr, newest) ==
  {s \in Sigs :
     /\ s <= newest
     /\ \E i \in ActiveRows(addr) :
          /\ monitored_wallets[i].last_signature /= NULL
          /\ monitored_wallets[i].last_signature < s}

CheckSeedCursorRecorded ==
  /\ check.pc = "seed"
  /\ monitored_wallets' =
       update_last_signature(check.wallet_address, check.signatures[1])
  /\ check' = [check EXCEPT !.pc = "done"]
  /\ chain' = [chain EXCEPT
                 !.skipped = @ \cup SkippedBySeed(check.wallet_address,
                                                  check.signatures[1])]
  /\ UNCHANGED <<transaction_history, settings, MIN_NOTIFICATION_AMOUNT,
                 tasks, routed>>
  /\ UNCHANGED notChain

JoinNext ==
  \/ \E c \in Chats, a \in Accounts, now \in StartTimes : AddWallet(c, a, now)
  \/ \E c \in Chats, a \in Accounts : RemoveWallet(c, a)
  \/ RestartBetweenChecks
  \/ ChainGrows
  \/ CheckStart
  \/ CheckGetSignaturesChain
  \/ CheckLoadWallet
  \/ CheckSeedCursorRecorded
  \/ CheckAdvanceCursor
  \/ CheckSpawn
  \/ CheckGather
  \/ CheckReturn
  \/ \E k \in DOMAIN tasks : TaskCheckLedger(k)
  \/ \E k \in DOMAIN tasks : TaskLoadWallets(k)
  \/ \E k \in DOMAIN tasks : TaskGetTransaction(k)
  \/ \E k \in DOMAIN tasks : TaskStore(k)
  \/ \E k \in DOMAIN tasks : TaskNotify(k)

JoinSpec == Init /\ [][JoinNext]_vars

\* ------------------------------------------- batch size of a cycle
\* The scheduler cycling over one quiet account while other tasks call
\* acquire(), which moves the mode of the rate limiter with the number of
\* requests in its window.
BatchInit ==
  /\ monitored_wallets =
       <<[chat_id |-> ADMIN_CHAT_ID, wallet_address |-> "A",
          is_active |-> TRUE, last_signature |-> NULL,
          monitoring_start_time |-> 1]>>
  /\ transaction_history = [s \in Sigs |-> <<>>]
  /\ settings = NoSetting
  /\ MIN_NOTIFICATION_AMOUNT = DEFAULT_MIN_NOTIFICATION_AMOUNT
  /\ check = IdleCheck
  /\ tasks = <<>>
  /\ routed = [s \in Sigs |-> 0]
  /\ chain = QuietChain
  /\ MONITORING_CHANNEL = SomeChannel
  /\ router = IdleRouter
  /\ sent = NothingSent
  /\ adding = <<>>
  /\ rate_limiter = NewRateLimiter
  /\ rpc = IdleRpc
  /\ acquirers = NoAcquirers
  /\ filter = IdleFilter
  /\ classifier = IdleClassifier
  /\ sched = start_global_monitoring(StoppedScheduler)
  /\ health = SleepingHealth

BatchNext ==
  \/ \E c \in Callers : AcquireCall(c)
  \/ \E c \in Callers : AcquireEnter(c)
  \/ \E c \in Callers : AcquireSleepDone(c)
  \/ WindowTimePasses
  \/ SchedCycleStart
  \/ SchedCheckStart
  \/ CheckGetSignaturesChain
  \/ SchedCheckReturn
  \/ SchedSleepDone

BatchSpec == BatchInit /\ [][BatchNext]_vars

\* ------------------------------------------------ batches of a cycle
\* The scheduler cycling over a working set of up to MaxWatches quiet
\* accounts, each watched by the admin, while make_rpc_call is answered 429
\* by the node, which moves the mode of the rate limiter between careful
\* (after the report) and fast or normal (after the next acquire).
MaxWatches == 17

WatchNames ==
  <<"a", "b", "c", "d", "e", "f", "g", "h", "i", "j", "k", "l", "m", "n",
    "o", "p", "q", "r", "s", "t", "u", "v", "w", "x", "y", "z">>

CycleInit ==
  /\ \E n \in 0 .. MaxWatches :
       monitored_wallets =
         [k \in 1 .. n |->
            [chat_id |-> ADMIN_CHAT_ID, wallet_address |-> WatchNames[k],
             is_active |-> TRUE, last_signature |-> NULL,
             monitoring_start_time |-> 1]]
  /\ transaction_history = [s \in Sigs |-> <<>>]
  /\ settings = NoSetting
  /\ MIN_NOTIFICATION_AMOUNT = DEFAULT_MIN_NOTIFICATION_AMOUNT
  /\ check = IdleCheck
  /\ tasks = <<>>
  /\ routed = [s \in Sigs |-> 0]
  /\ chain = QuietChain
  /\ MONITORING_CHANNEL = SomeChannel
  /\ router = IdleRouter
  /\ sent = NothingSent
  /\ adding = <<>>
  /\ rate_limiter = NewRateLimiter
  /\ rpc = IdleRpc
  /\ acquirers = NoAcquirers
  /\ filter = IdleFilter
  /\ classifier = IdleClassifier
  /\ sched = start_global_monitoring(StoppedScheduler)
  /\ health = SleepingHealth

CycleNext ==
  \/ RpcCall
  \/ RpcAcquire
  \/ RpcSleepDone
  \/ RpcOutcome("429")
  \/ RpcRetry
  \/ RpcReturn
  \/ SchedCycleStart
  \/ SchedCheckStart
  \/ CheckGetSignaturesChain
  \/ SchedCheckReturn
  \/ SchedBatchSleepDone
  \/ SchedSleepDone

CycleSpec == CycleInit /\ [][CycleNext]_vars

\* -------------------------------- one transaction, two watched accounts
\* The monitoring core over accounts "A" and "B", both watched by the
\* admin: every transaction of the chain touches both accounts, and the
\* RPC may return any list of signatures for either of them.
SharedInit ==
  /\ monitored_wallets =
       <<[chat_id |-> ADMIN_CHAT_ID, wallet_address |-> "A",
          is_active |-> TRUE, last_signature |-> NULL,
          monitoring_start_time |-> 1],
         [chat_id |-> ADMIN_CHAT_ID, wallet_address |-> "B",
          is_active |-> TRUE, last_signature |-> NULL,
          monitoring_start_time |-> 1]>>
  /\ transaction_history = [s \in Sigs |-> <<>>]
  /\ settings = NoSetting
  /\ MIN_NOTIFICATION_AMOUNT = DEFAULT_MIN_NOTIFICATION_AMOUNT
  /\ check = IdleCheck
  /\ tasks = <<>>
  /\ routed = [s \in Sigs |-> 0]
  /\ chain = QuietChain
  /\ MONITORING_CHANNEL = SomeChannel
  /\ router = IdleRouter
  /\ sent = NothingSent
  /\ adding = <<>>
  /\ rate_limiter = NewRateLimiter
  /\ rpc = IdleRpc
  /\ acquirers = NoAcquirers
  /\ filter = IdleFilter
  /\ classifier = IdleClassifier
  /\ sched = StoppedScheduler
  /\ health = SleepingHealth

SharedNext ==
  \/ CheckStart
  \/ CheckGetSignatures
  \/ CheckLoadWallet
  \/ CheckSeedCursor
  \/ CheckAdvanceCursor
  \/ CheckSpawn
  \/ CheckGather
  \/ CheckReturn
  \/ \E k \in DOMAIN tasks : TaskCheckLedger(k)
  \/ \E k \in DOMAIN tasks : TaskLoadWallets(k)
  \/ \E k \in DOMAIN tasks : TaskGetTransaction(k)
  \/ \E k \in DOMAIN tasks : TaskStore(k)
  \/ \E k \in DOMAIN tasks : TaskNotify(k)

SharedSpec == SharedInit /\ [][SharedNext]_vars

\* ------------------------------------------------------- the classifier
\* calculate_balance_change applied to getTransaction results for the
\* watched account "A": up to MaxKeys account keys and balances, up to
\* MaxInstructions instructions and up to MaxTokenBalances entries in each
\* list of token balances.
MaxKeys == 2
MaxInstructions == 2
MaxTokenBalances == 2

KeyLists == UNION {[1 .. n -> {"A", "X"}] : n \in 0 .. MaxKeys}

BalanceLists == UNION {[1 .. n -> {1, 2}] : n \in 0 .. MaxKeys}

InstructionLists ==
  UNION {[1 .. n -> {"675kPX9MHTjS2zt1qfr1NYHuzeLXfQM9H24wFSUt1Mp8",
                     "JUP6LkbZbjS1jKKwapdHNy74zcZ3tLUZoi5QNyVTaV4",
                     SPL_TOKEN_PROGRAM, SYSTEM_PROGRAM}] :
           n \in 0 .. MaxInstructions}

Transactions ==
  [accountKeys : KeyLists, preBalances : BalanceLists,
   postBalances : BalanceLists, instructions : InstructionLists,
   preTokenBalances : 0 .. MaxTokenBalances,
   postTokenBalances : 0 .. MaxTokenBalances]

ClassifierInit ==
  /\ monitored_wallets = <<>>
  /\ transaction_history = [s \in Sigs |-> <<>>]
  /\ settings = NoSetting
  /\ MIN_NOTIFICATION_AMOUNT = DEFAULT_MIN_NOTIFICATION_AMOUNT
  /\ check = IdleCheck
  /\ tasks = <<>>
  /\ routed = [s \in Sigs |-> 0]
  /\ chain = QuietChain
  /\ MONITORING_CHANNEL = SomeChannel
  /\ router = IdleRouter
  /\ sent = NothingSent
  /\ adding = <<>>
  /\ rate_limiter = NewRateLimiter
  /\ rpc = IdleRpc
  /\ acquirers = NoAcquirers
  /\ filter = IdleFilter
  /\ \E transaction \in Transactions :
       classifier = [IdleClassifier EXCEPT !.transaction = transaction,
                                          !.wallet_address = "A"]
  /\ sched = StoppedScheduler
  /\ health = SleepingHealth

\* amount, tx_type = self.calculate_balance_change(transaction,
\*                                                 wallet_address)
ClassifierCall ==
  /\ classifier.pc = "idle"
  /\ LET r == calculate_balance_change(classifier.transaction,
                                       classifier.wallet_address)
     IN classifier' = [classifier EXCEPT !.pc = "return",
                                         !.amount = r.amount,
                                         !.tx_type = r.tx_type]
  /\ UNCHANGED notClassifier

\* the caller has used the result
ClassifierReturn ==
  /\ classifier.pc = "return"
  /\ classifier' = [classifier EXCEPT !.pc = "idle", !.amount = 0,
                                      !.tx_type = ""]
  /\ UNCHANGED notClassifier

ClassifierNext ==
  \/ ClassifierCall
  \/ ClassifierReturn

ClassifierSpec == ClassifierInit /\ [][ClassifierNext]_vars

\* ------------------------------------------------------------ properties
\* the cursor of the row the running check read, while that row is active
RowActive == check.row /= NULL /\ monitored_wallets[check.row].is_active
RowCursor == monitored_wallets[check.row].last_signature

\* a signature has a blockTime and it is earlier than the inception time
\* the running check read
Older(sig) ==
  /\ ChainBlockTime(sig) >= 1
  /\ check.monitoring_start_time >= 1
  /\ ChainBlockTime(sig) < check.monitoring_start_time

\* C1: for every signature the notification router is invoked at most once,
\* whatever the subscribers, the polls, the interleaving of the
\* per-signature tasks and the restarts.
C1_AtMostOnce == \A s \in Sigs : routed[s] <= 1

\* a signature notified by an earlier check has been found again and its
\* task has ended without a second notification
C1_Witness ==
  /\ check.emitted = <<>>
  /\ \E k \in DOMAIN tasks :
        tasks[k].pc = "done" /\ routed[tasks[k].signature] = 1

\* C2: every signature for which a notification has been dispatched has
\* exactly one ledger row, and that row has notified = TRUE.
C2_OneNotifiedRow ==
  \A s \in Sigs :
     routed[s] > 0 =>
        /\ Len(transaction_history[s]) = 1
        /\ transaction_history[s][1].notified = TRUE

C2_Witness ==
  \E s \in Sigs : routed[s] = 1 /\ Len(transaction_history[s]) = 1

\* C3 (as stated): a ledger row exists for a signature if and only if a
\* notification for that signature has been dispatched.
C3_RowIffNotified ==
  \A s \in Sigs : (transaction_history[s] /= <<>>) <=> (routed[s] > 0)

\* C3 (amended): every signature for which a notification has been
\* dispatched has a ledger row, and that row is not a dust row; a row may
\* exist without a notification.
C3_NotifiedHasRow ==
  \A s \in Sigs :
     routed[s] > 0 =>
        \E k \in DOMAIN transaction_history[s] :
           transaction_history[s][k].tx_type /= "dust"

\* one signature has been notified while another has a dust row and no
\* notification
C3_Witness ==
  /\ \E s \in Sigs : routed[s] > 0
  /\ \E s \in Sigs :
        /\ routed[s] = 0
        /\ transaction_history[s] /= <<>>
        /\ transaction_history[s][1].tx_type = "dust"

C5_CursorIsNewest ==
  (check.pc = "done" /\ RowActive) => RowCursor = check.signatures[1]

\* C6: a signature whose blockTime is less than the inception time read by
\* the check is never handed to a per-signature task of that check.
C6_NoOlderTask == \A k \in DOMAIN tasks : ~Older(tasks[k].signature)

\* the newest signature of the list was discarded for its blockTime and
\* the check still started tasks for the others
C6_Witness ==
  /\ check.pc = "gather"
  /\ tasks /= <<>>
  /\ Older(check.signatures[1])
  /\ check.signatures[1] /= check.last_signature

\* C7: a newly discovered signature classified below the threshold is
\* recorded in the ledger as dust and is not notified, and the cursor is at
\* the newest signature of the poll.
C7_DustRecorded ==
  \A k \in DOMAIN tasks :
     (tasks[k].dust /\ tasks[k].pc = "done") =>
        /\ transaction_history[tasks[k].signature]
             = <<[tx_type |-> "dust", notified |-> TRUE]>>
        /\ routed[tasks[k].signature] = 0
        /\ RowActive => RowCursor = check.signatures[1]

\* C8: the ledger never holds two rows with the same signature.
C8_UniqueSignature == \A s \in Sigs : Len(transaction_history[s]) <= 1

\* a dust signature of an account with two subscribers has one row
C8_Witness ==
  \E k \in DOMAIN tasks :
     /\ tasks[k].dust
     /\ tasks[k].pc = "done"
     /\ tasks[k].wallets >= 2
     /\ Len(transaction_history[tasks[k].signature]) = 1

\* C9: whenever a per-signature task of a check exists, the cursor has
\* already been written and is at the newest signature the check observed.
C9_CursorBeforeTasks ==
  tasks /= <<>> =>
     /\ check.pc \in {"gather", "done"}
     /\ RowActive => RowCursor = check.signatures[1]

\* C10: the notifications of one check are dispatched oldest first, i.e. in
\* the order in which the tasks were created.
C10_Chronological ==
  \A i, j \in DOMAIN check.emitted :
     i < j => check.emitted[i] < check.emitted[j]

\* C11: a check whose getSignaturesForAddress answer holds no signature
\* that an earlier answer did not hold, with the watches of the account
\* unchanged since that earlier poll, dispatches no notification, also
\* after a restart; and no signature is notified in two checks.
C11_QuietPollSilent ==
  /\ (/\ check.pc \notin {"idle", "rpc"}
      /\ chain.quiet
      /\ ActiveRows(check.wallet_address) = chain.polled_rows)
        => check.emitted = <<>>
  /\ \A s \in Sigs : routed[s] <= 1

C13_OneActiveWatch ==
  \A i, j \in DOMAIN monitored_wallets :
     (/\ monitored_wallets[i].is_active
      /\ monitored_wallets[j].is_active
      /\ monitored_wallets[i].chat_id = monitored_wallets[j].chat_id
      /\ monitored_wallets[i].wallet_address
           = monitored_wallets[j].wallet_address)
        => i = j

\* C14: when the scheduler task has terminated, the tick of the supervisor
\* (the step in which health_monitor makes its tests) leaves a running
\* scheduler task.
C14_RespawnAtTick ==
  [][(health.pc = "db" /\ health'.pc = "sleep" /\ sched.task = "done")
       => sched'.task = "running"]_vars

\* C15: the scheduler task ends only by cancellation, never by an
\* exception of a check or of the cycle; and a cycle that was not itself
\* interrupted has called the check for every entry of its wallet list,
\* whether or not one of the checks raised.
C15_ExceptionsIsolated ==
  /\ sched.task = "done" => sched.cancelled
  /\ (sched.task = "running" /\ sched.pc = "sleep" /\ ~sched.aborted)
        => sched.polled = sched.all_wallets

\* a cycle over two accounts has ended although the check of the first
\* one raised
C15_Witness ==
  /\ sched.task = "running"
  /\ sched.pc = "sleep"
  /\ sched.raised
  /\ ~sched.aborted
  /\ Len(sched.all_wallets) = 2
  /\ sched.all_wallets[1] /= sched.all_wallets[2]
  /\ sched.polled = sched.all_wallets

\* C20: within one cycle no account address is polled twice.
C20_PolledOncePerCycle ==
  \A i, j \in DOMAIN sched.polled :
     i /= j => sched.polled[i] /= sched.polled[j]

\* C16: in every reachable state of the limiter, after any sequence of
\* acquire, on_success, on_rate_limit_error and on_network_error from the
\* base delay, MIN_DELAY <= current_delay <= MAX_DELAY.
C16_DelayWithinBounds ==
  /\ MIN_DELAY <= rate_limiter.current_delay
  /\ rate_limiter.current_delay <= MAX_DELAY

\* C16 witness: the delay has been driven up to the cap by error reports on
\* a call that is still being retried.
C16_Witness ==
  /\ rate_limiter.current_delay = MAX_DELAY
  /\ rpc.pc = "wait"

\* The step in which an attempt of make_rpc_call is answered 429 and reports
\* it, as one of the first MaxStorm such answers in a row.
C18_Answered429 ==
  /\ rpc.pc = "post"
  /\ rpc'.pc # "post"
  /\ rpc'.storm = rpc.storm + 1

\* C18 (as stated): at each of 8 consecutive 429 answers current_delay
\* strictly increases and stays at most MAX_DELAY, the mode becomes careful
\* and get_optimal_batch_size() is at most 9.
C18_StormStrictlyIncreases ==
  [][C18_Answered429 =>
       /\ rate_limiter'.current_delay > rate_limiter.current_delay
       /\ rate_limiter'.current_delay <= MAX_DELAY
       /\ rate_limiter'.performance_mode = "careful"
       /\ get_optimal_batch_size(rate_limiter'.performance_mode) <= 9]_vars

\* C18 (amended): each 429 answer multiplies current_delay by 1.8 up to
\* MAX_DELAY, so the delay strictly increases while it is below MAX_DELAY
\* and stays at MAX_DELAY once there, which is the case from the 7th 429 in
\* a row at the latest; right after each 429 report the mode is careful and
\* get_optimal_batch_size() is at most 9.
C18_StormBacksOff ==
  /\ [][C18_Answered429 =>
          /\ \/ rate_limiter'.current_delay > rate_limiter.current_delay
             \/ /\ rate_limiter.current_delay = MAX_DELAY
                /\ rate_limiter'.current_delay = MAX_DELAY
          /\ rate_limiter'.current_delay <= MAX_DELAY
          /\ rate_limiter'.performance_mode = "careful"
          /\ get_optimal_batch_size(rate_limiter'.performance_mode) <= 9]_vars
  /\ [](rpc.storm >= 7 => rate_limiter.current_delay = MAX_DELAY)

\* C18 witness: the 8th 429 in a row has just been reported.
C18_Witness ==
  /\ rpc.storm = 8
  /\ rpc.pc = "return"
  /\ rate_limiter.performance_mode = "careful"
  /\ rate_limiter.current_delay = MAX_DELAY

\* C19: when an attempt of make_rpc_call is over (the call waits for its
\* next attempt or returns), the attempt has made exactly one report to the
\* rate limiter, whatever its outcome was.
C19_OneReportPerAttempt ==
  rpc.pc \in {"wait", "return"} => rpc.reports = 1

\* C17: at no moment does recent_requests hold more than
\* MAX_RPC_CALLS_PER_SECOND * 60 entries, whatever the number of callers
\* contending for acquire(); the entries that are still within the 60 s
\* window lie at least MIN_DELAY apart, because each caller appends its
\* entry and sleeps current_delay with the lock held.
C17_WindowBounded ==
  /\ Len(rate_limiter.recent_requests) <= MAX_RPC_CALLS_PER_SECOND * 60
  /\ \A i \in 1 .. Len(rate_limiter.recent_requests) - 1 :
       InWindow(rate_limiter.recent_requests[i]) =>
         rate_limiter.recent_requests[i]
           - rate_limiter.recent_requests[i + 1] >= MIN_DELAY

\* C17 witness: the window holds more requests than the near-limit
\* threshold while one caller sleeps in acquire with the lock and another
\* waits for it.
C17_Witness ==
  /\ Len(rate_limiter.recent_requests) > MAX_RPC_CALLS_PER_SECOND
  /\ \E c \in Callers : acquirers[c] = "sleep" /\ rate_limiter.lock = c
  /\ \E c \in Callers : acquirers[c] = "lock"

\* The account has no subscriber: no row of the table is active for it.
C21_Unwatched(addr) ==
  \A i \in DOMAIN monitored_wallets :
     monitored_wallets[i].is_active =>
       monitored_wallets[i].wallet_address # addr

\* C21: a check that started when the account had no subscriber left makes,
\* as long as the account has none, no step (of its own or of a task of
\* its) that changes the registry, and so a cursor, writes a ledger row or
\* invokes the notification callback.
C21_RemovedAccountUntouched ==
  [][(/\ check.orphan
      /\ C21_Unwatched(check.wallet_address)
      /\ (check' # check \/ tasks' # tasks))
     => /\ monitored_wallets' = monitored_wallets
        /\ transaction_history' = transaction_history
        /\ routed' = routed]_vars

\* C21 witness: such a check got signatures from the RPC, read the registry
\* and returned, the account still having no subscriber.
C21_Witness ==
  /\ check.orphan
  /\ check.pc = "done"
  /\ check.signatures # <<>>
  /\ C21_Unwatched(check.wallet_address)
  /\ \E i \in DOMAIN monitored_wallets :
       /\ ~monitored_wallets[i].is_active
       /\ monitored_wallets[i].wallet_address = check.wallet_address

\* C22: the threshold in force after a restart of the process equals the
\* threshold that was in force just before it.
C22_ThresholdSurvivesRestart ==
  [][(\E readable \in BOOLEAN : FilterRestart(readable))
     => MIN_NOTIFICATION_AMOUNT' = MIN_NOTIFICATION_AMOUNT]_vars

\* The running check got nothing to work on: make_rpc_call returned None,
\* or data without 'result' or with an empty one.
C23_NoResult == check.pc \notin {"idle", "rpc"} /\ check.signatures = <<>>

\* The check has read the registry, and one of the entries it reads from
\* the answer has no 'signature'.
C23_ReadsMalformedEntry ==
  /\ check.row # NULL
  /\ IF check.last_signature = NULL
     THEN check.signatures[1] = NULL
     ELSE \E i \in DOMAIN check.signatures :
            /\ check.signatures[i] = NULL
            /\ \A j \in 1 .. i - 1 :
                 check.signatures[j] # check.last_signature

\* A step of the running check or of one of its tasks leaves the registry
\* (and so every cursor), the ledger and the callback count as they are.
C23_StepWritesNothing ==
  (check' # check \/ tasks' # tasks)
    => /\ monitored_wallets' = monitored_wallets
       /\ transaction_history' = transaction_history
       /\ routed' = routed

\* C23 (as stated): when getSignaturesForAddress fails, returns no result
\* or returns a result in which some entry lacks a field ('signature' or
\* 'blockTime'), the check changes no cursor, writes no ledger row and
\* dispatches no notification.
C23_MalformedResultIgnored ==
  [][(\/ C23_NoResult
      \/ \E i \in DOMAIN check.signatures :
           \/ check.signatures[i] = NULL
           \/ ChainBlockTime(check.signatures[i]) = NULL)
     => C23_StepWritesNothing]_vars

\* C23 (amended): when getSignaturesForAddress fails or returns no result,
\* or when an entry that the check reads (the newest entry on the first
\* check, the entries down to the cursor otherwise) has no 'signature',
\* the check changes no cursor, writes no ledger row and dispatches no
\* notification.
C23_UnusableResultIgnored ==
  [][(C23_NoResult \/ C23_ReadsMalformedEntry)
     => C23_StepWritesNothing]_vars

\* C23 witness: a check of an account with a cursor met an entry without
\* 'signature' before the cursor, behind a well-formed newer entry, and
\* returned.
C23_Witness ==
  /\ check.pc = "done"
  /\ check.last_signature # NULL
  /\ Len(check.signatures) = 2
  /\ check.signatures[1] \notin {NULL, check.last_signature}
  /\ check.signatures[2] = NULL
  /\ check.row # NULL

\* C24: in every reachable state the cursor of every active watch is null
\* or is the newest (first) element of a list that getSignaturesForAddress
\* returned for the account of the watch.
C24_CursorIsSomeNewest ==
  \A i \in DOMAIN monitored_wallets :
     monitored_wallets[i].is_active =>
       \/ monitored_wallets[i].last_signature = NULL
       \/ monitored_wallets[i].last_signature \in chain.firsts

\* C25: the batch size is monotone non-increasing in the mode: what a
\* cycle reads in fast mode is at least what a cycle reads in normal mode,
\* which is BATCH_SIZE and at least what a cycle reads in careful mode.
C25_BatchSizeMonotone ==
  LET size == sched.batch_sizes
  IN /\ size["normal"] # NULL => size["normal"] = BATCH_SIZE
     /\ (size["fast"] # NULL /\ size["normal"] # NULL)
          => size["fast"] >= size["normal"]
     /\ (size["normal"] # NULL /\ size["careful"] # NULL)
          => size["normal"] >= size["careful"]
     /\ (size["fast"] # NULL /\ size["careful"] # NULL)
          => size["fast"] >= size["careful"]

\* C25 witness: cycles have read the batch size in each of the three modes.
C25_Witness ==
  /\ \A m \in Modes : sched.batch_sizes[m] # NULL
  /\ sched.batch_sizes["fast"] > sched.batch_sizes["careful"]

\* The elements of the answer that precede the first occurrence of the
\* cursor the check read (all of them when the cursor does not occur).
C26_BeforeCursor ==
  LET S == check.signatures
      hits == {i \in DOMAIN S : S[i] = check.last_signature}
      cut == IF hits = {} THEN Len(S) + 1
             ELSE CHOOSE i \in hits : \A j \in hits : i <= j
  IN SubSeq(S, 1, cut - 1)

\* C26: a check that read a non-null cursor hands to the per-signature
\* tasks exactly the elements of the answer that precede the first
\* occurrence of the cursor and are not discarded by the inception-time
\* filter, oldest first; the cursor element and the elements after it get
\* no task.
C26_TasksArePrefixBeforeCursor ==
  (/\ check.pc \in {"gather", "done"}
   /\ check.row # NULL
   /\ check.last_signature # NULL)
  => LET NotOlder(sig) == ~Older(sig)
     IN [k \in DOMAIN tasks |-> tasks[k].signature]
          = Reverse(SelectSeq(C26_BeforeCursor, NotOlder))

\* C26 witness: cursor s2 and the answer [s3, s2]: s3 alone has a task.
C26_Witness ==
  /\ check.pc = "gather"
  /\ check.last_signature = 2
  /\ check.signatures = <<3, 2>>
  /\ Len(tasks) = 1
  /\ tasks[1].signature = 3

\* C27: on_rate_limit_error resets the consecutive-success counter; when
\* another 429 was reported less than 30 s before, it multiplies the delay
\* by 1.8 (capped at MAX_DELAY) and sets the mode to careful; otherwise
\* (no 429 before, or the previous one 30 s or more ago) it multiplies the
\* delay by 1.3 (capped at MAX_DELAY) and leaves the mode unchanged.
C27_BackoffByRecency ==
  [][RpcOutcome("429") =>
       /\ rate_limiter'.consecutive_successes = 0
       /\ IF /\ rate_limiter.last_429_time # NoTime
             /\ rate_limiter.last_429_time < 30 * Second
          THEN /\ rate_limiter'.current_delay
                    = (IF (rate_limiter.current_delay * 18) \div 10 > MAX_DELAY
                       THEN MAX_DELAY
                       ELSE (rate_limiter.current_delay * 18) \div 10)
               /\ rate_limiter'.performance_mode = "careful"
          ELSE /\ rate_limiter'.current_delay
                    = (IF (rate_limiter.current_delay * 13) \div 10 > MAX_DELAY
                       THEN MAX_DELAY
                       ELSE (rate_limiter.current_delay * 13) \div 10)
               /\ rate_limiter'.performance_mode
                    = rate_limiter.performance_mode]_vars

\* C28: on_success adds one to the consecutive-success counter; when the
\* counter is then at the threshold (3 in fast mode, 5 in normal or careful
\* mode) or past it, the delay is multiplied by 0.9 (fast) or 0.95 (normal,
\* careful), floored at MIN_DELAY, and the counter is reset to 0; below the
\* threshold the delay is unchanged and the counter keeps the new count.
C28_SuccessSpeedsUp ==
  [][RpcOutcome("200") =>
       LET fast == rate_limiter.performance_mode = "fast"
           count == rate_limiter.consecutive_successes + 1
           reduced == IF fast
                      THEN (rate_limiter.current_delay * 9) \div 10
                      ELSE (rate_limiter.current_delay * 95) \div 100
       IN  IF count >= (IF fast THEN 3 ELSE 5)
           THEN /\ rate_limiter'.current_delay
                     = (IF reduced < MIN_DELAY THEN MIN_DELAY ELSE reduced)
                /\ rate_limiter'.consecutive_successes = 0
           ELSE /\ rate_limiter'.current_delay = rate_limiter.current_delay
                /\ rate_limiter'.consecutive_successes = count]_vars

\* C28 witness: a call has just returned after the success that brought
\* the delay below BASE_DELAY and reset the counter.
C28_Witness ==
  /\ rpc.pc = "return"
  /\ rpc.reports = 1
  /\ rate_limiter.consecutive_successes = 0
  /\ rate_limiter.current_delay < BASE_DELAY
  /\ rate_limiter.last_429_time = NoTime

\* C29: after each acquire() the mode reflects the rate of the requests of
\* the last 60 s, in requests per second, against MAX_RPC_CALLS_PER_SECOND:
\* careful when the rate is above 90 % of it, fast when it is below 70 % of
\* it, normal otherwise.  The rate of n requests in 60 s is n / 60 per
\* second; the comparisons are made on n * 10 to stay in whole numbers.
C29_ModeReflectsRate ==
  [][\A c \in Callers :
       AcquireEnter(c) =>
         LET n == Len(rate_limiter'.recent_requests)
         IN  rate_limiter'.performance_mode
               = (IF n * 10 > MAX_RPC_CALLS_PER_SECOND * 60 * 9
                  THEN "careful"
                  ELSE IF n * 10 < MAX_RPC_CALLS_PER_SECOND * 60 * 7
                       THEN "fast"
                       ELSE "normal")]_vars

\* C30: make_rpc_call terminates after at most max_retries (2) attempts:
\* a running call always returns, it never makes more than MAX_RETRIES
\* attempts, it returns the response on the first HTTP 200, and it returns
\* null on a non-retryable HTTP status and on any other outcome of its
\* last attempt, and only then.
C30_CallTerminates ==
  /\ [](rpc.attempt + 1 <= MAX_RETRIES)
  /\ [][\A outcome \in Outcomes :
          RpcOutcome(outcome) =>
            IF outcome = "200"
            THEN rpc'.pc = "return" /\ rpc'.result = "data"
            ELSE IF outcome = "other status" \/ rpc.attempt + 1 = MAX_RETRIES
                 THEN rpc'.pc = "return" /\ rpc'.result = "null"
                 ELSE rpc'.pc = "wait" /\ rpc'.result = "pending"]_vars
  /\ (rpc.pc # "idle") ~> (rpc.pc = "idle")

\* C30 witness: the second attempt of a call was answered 429 and the call
\* is about to return null.
C30_Witness ==
  /\ rpc.pc = "return"
  /\ rpc.attempt + 1 = MAX_RETRIES
  /\ rpc.storm >= 1
  /\ rpc.result = "null"

\* C31: in each cycle the working set is cut into contiguous batches of
\* batch_size elements (the last one possibly smaller), batch_size being
\* the value of get_optimal_batch_size() read at the start of the cycle and
\* kept until the next cycle starts whatever the mode becomes; the watches
\* are checked in list order, each once, and all of them by the end of the
\* cycle.
C31_BatchesPartitionCycle ==
  /\ [](LET all == sched.all_wallets
            size == sched.current_batch_size
        IN  /\ \A b \in DOMAIN sched.batches :
                 sched.batches[b]
                   = SubSeq(all, (b - 1) * size + 1,
                            IF b * size < Len(all) THEN b * size
                            ELSE Len(all))
            /\ Len(sched.polled) <= Len(all)
            /\ sched.polled = SubSeq(all, 1, Len(sched.polled))
            /\ sched.pc \in {"sleep", "cycle"} =>
                 /\ sched.polled = all
                 /\ all # <<>> =>
                      /\ Len(sched.batches) * size >= Len(all)
                      /\ (Len(sched.batches) - 1) * size < Len(all))
  /\ [][/\ sched.pc # "cycle" =>
             sched'.current_batch_size = sched.current_batch_size
        /\ (SchedCycleStart /\ sched'.all_wallets # <<>>) =>
             sched'.current_batch_size
               = get_optimal_batch_size(rate_limiter.performance_mode)]_vars

\* C31 witness: a cycle over more watches than its batch size has ended
\* after a second batch, and the mode is no longer the one whose batch
\* size the cycle read.
C31_Witness ==
  /\ sched.pc = "sleep"
  /\ Len(sched.batches) = 2
  /\ Len(sched.batches[2]) >= 2
  /\ sched.polled = sched.all_wallets
  /\ sched.current_batch_size
       # get_optimal_batch_size(rate_limiter.performance_mode)

\* C32: at most one per-account check is in progress at any time: a check
\* runs only while the scheduler awaits it, per-signature tasks run only
\* inside the check that awaits them, a check returns to the batch loop
\* only when every task it spawned has finished, and the check of the next
\* account begins with no check and no task of an earlier one left.
C32_OneCheckAtATime ==
  /\ [](/\ check.pc # "idle" => (sched.task = "running" /\ sched.pc = "check")
        /\ (\E k \in DOMAIN tasks : tasks[k].pc # "done")
             => check.pc = "gather")
  /\ [][/\ SchedCheckReturn => \A k \in DOMAIN tasks : tasks[k].pc = "done"
        /\ SchedCheckStart => (check.pc = "idle" /\ tasks = <<>>)]_vars

\* C32 witness: the check of the second account of a cycle awaits a task
\* it spawned, after the check of the first account has left a ledger row.
C32_Witness ==
  /\ sched.pc = "check"
  /\ Len(sched.polled) = 2
  /\ check.pc = "gather"
  /\ \E k \in DOMAIN tasks : tasks[k].pc # "done"
  /\ \E s \in Sigs : transaction_history[s] # <<>>

\* The result the classifier has returned for the transaction it was given.
C33_Returned == classifier.pc = "return"

\* The watched account is one of the account keys of the transaction.
C33_Present ==
  \E i \in DOMAIN classifier.transaction.accountKeys :
     classifier.transaction.accountKeys[i] = classifier.wallet_address

\* The first index of the watched account among the account keys.
C33_Index ==
  CHOOSE i \in DOMAIN classifier.transaction.accountKeys :
    /\ classifier.transaction.accountKeys[i] = classifier.wallet_address
    /\ \A j \in 1 .. i - 1 :
         classifier.transaction.accountKeys[j] # classifier.wallet_address

\* Both balance lists have an entry at the index of the watched account.
C33_HasBalances ==
  /\ C33_Index <= Len(classifier.transaction.preBalances)
  /\ C33_Index <= Len(classifier.transaction.postBalances)

\* The kind given to a transaction of the watched account whose balance
\* changes by delta: trade if an instruction is of a DEX/AMM program
\* whatever the sign of delta, else either trade, which needs an SPL-Token
\* instruction and 2 token-balance entries on one side, or receive, send or
\* generic by the sign of delta.
C33_KindFor(delta) ==
  LET tx == classifier.transaction
      bySign == IF delta > 0 THEN "receive"
                ELSE IF delta < 0 THEN "send" ELSE "generic"
  IN  IF \E n \in DOMAIN tx.instructions :
           tx.instructions[n] \in trading_programs
      THEN classifier.tx_type = "trade"
      ELSE \/ classifier.tx_type = bySign
           \/ /\ classifier.tx_type = "trade"
              /\ \E n \in DOMAIN tx.instructions :
                   tx.instructions[n] = SPL_TOKEN_PROGRAM
              /\ tx.preTokenBalances >= 2 \/ tx.postTokenBalances >= 2

\* C33 (as stated): the classifier returns (0, generic) when the watched
\* account is absent from accountKeys; otherwise the amount is
\* post[i] - pre[i] at the index of the account and the kind is trade for a
\* DEX/AMM instruction whatever the sign, else trade under the token-swap
\* heuristic, else receive, send or generic by the sign of the amount.
C33_ClassifiedByPayload ==
  C33_Returned =>
    IF ~C33_Present
    THEN classifier.amount = 0 /\ classifier.tx_type = "generic"
    ELSE \E pre, post \in 1 .. 2 :
           /\ C33_Index <= Len(classifier.transaction.preBalances)
                => pre = classifier.transaction.preBalances[C33_Index]
           /\ C33_Index <= Len(classifier.transaction.postBalances)
                => post = classifier.transaction.postBalances[C33_Index]
           /\ classifier.amount = post - pre
           /\ C33_KindFor(post - pre)

\* C33 (amended): the classifier returns (0, generic) when the watched
\* account is absent from accountKeys or one of the two balance lists has
\* no entry at its index; otherwise the amount is post[i] - pre[i] and the
\* kind is trade for a DEX/AMM instruction whatever the sign, else trade
\* under the token-swap heuristic, else receive, send or generic by the
\* sign of the amount.  The result is a function of the transaction and
\* the watched account alone.
C33_ClassifiedWhenBalancesPresent ==
  C33_Returned =>
    IF ~C33_Present \/ ~C33_HasBalances
    THEN classifier.amount = 0 /\ classifier.tx_type = "generic"
    ELSE LET delta ==
               classifier.transaction.postBalances[C33_Index]
                 - classifier.transaction.preBalances[C33_Index]
         IN  /\ classifier.amount = delta
             /\ C33_KindFor(delta)

\* C33 witness: a transaction that lowers the balance of the watched
\* account and has a DEX/AMM instruction has been classified trade.
C33_Witness ==
  /\ C33_Returned
  /\ C33_Present
  /\ classifier.amount < 0
  /\ classifier.tx_type = "trade"
  /\ \E n \in DOMAIN classifier.transaction.instructions :
       classifier.transaction.instructions[n] \in trading_programs

\* C34: when no instruction is of a known DEX/AMM program, a transaction of
\* the watched account with an SPL-Token instruction is classified trade
\* whenever its preTokenBalances or its postTokenBalances has at least 2
\* entries.
C34_TokenSwapEitherSide ==
  (/\ C33_Returned
   /\ C33_Present
   /\ C33_HasBalances
   /\ \A n \in DOMAIN classifier.transaction.instructions :
        classifier.transaction.instructions[n] \notin trading_programs
   /\ \E n \in DOMAIN classifier.transaction.instructions :
        classifier.transaction.instructions[n] = SPL_TOKEN_PROGRAM
   /\ \/ classifier.transaction.preTokenBalances >= 2
      \/ classifier.transaction.postTokenBalances >= 2)
  => classifier.tx_type = "trade"

\* C35: once a ledger row exists for a signature, no task enters the
\* notification for that signature any more, whatever account it runs for
\* and whatever that account's own balance change is; a signature whose
\* row is a dust row is never notified.
C35_RowBlocksOtherAccounts ==
  /\ [](\A s \in Sigs :
          (/\ transaction_history[s] # <<>>
           /\ transaction_history[s][1].tx_type = "dust") => routed[s] = 0)
  /\ [][\A k \in DOMAIN tasks :
          (/\ transaction_history[tasks[k].signature] # <<>>
           /\ tasks[k].pc # "notify"
           /\ k \in DOMAIN tasks')
          => tasks'[k].pc # "notify"]_vars

\* C35 witness: the task of account "B" for a signature has ended without
\* a notification because of the dust row written for that signature while
\* account "A" was processed, although the change of the balance of "B" in
\* that transaction is at the threshold or above.
C35_Witness ==
  /\ check.wallet_address = "B"
  /\ \E k \in DOMAIN tasks :
       /\ tasks[k].pc = "done"
       /\ transaction_history[tasks[k].signature] # <<>>
       /\ transaction_history[tasks[k].signature][1].tx_type = "dust"
       /\ routed[tasks[k].signature] = 0
       /\ ChainTransaction(tasks[k].signature).postBalances[2]
            - ChainTransaction(tasks[k].signature).preBalances[2]
            >= MIN_NOTIFICATION_AMOUNT
       /\ ChainTransaction(tasks[k].signature).postBalances[1]
            - ChainTransaction(tasks[k].signature).preBalances[1]
            < MIN_NOTIFICATION_AMOUNT

C38_OneScheduler ==
  /\ [](sched.running <= 1)
  /\ [][sched'.running > sched.running => ~sched.key]_vars

\* add_wallet called start_global_monitoring while the scheduler of the
\* startup was running, and the supervisor called it after that scheduler
\* had ended
C38_Witness ==
  /\ sched.callers = {"startup", "add", "supervisor"}
  /\ sched.key
  /\ sched.running = 0
  /\ health.pc = "sleep"

\* the mode that belongs to a number of timestamps in the window: careful
\* above 90 % of 25, fast below 70 % of 25, normal in between
C39_ModeOfCount(n) ==
  IF 10 * n > 9 * 25 THEN "careful"
  ELSE IF 10 * n < 7 * 25 THEN "fast" ELSE "normal"

\* C39: the mode acquire() leaves depends only on the number of timestamps
\* in the window; a careful mode forced by a 429 is overwritten by the next
\* acquire(), which sets fast when the window holds fewer than 70 % of 25
\* entries, even within 30 s of that 429.
C39_ModeFromWindowOnly ==
  [][RpcAcquire =>
       /\ rate_limiter'.performance_mode =
            C39_ModeOfCount(Len(rate_limiter'.recent_requests))
       /\ (/\ rate_limiter.performance_mode = "careful"
           /\ rate_limiter.last_429_time # NoTime
           /\ rate_limiter.last_429_time < 30 * Second
           /\ 10 * Len(rate_limiter'.recent_requests) < 7 * 25)
          => rate_limiter'.performance_mode = "fast"]_vars

\* the retry after a 429 has gone through acquire(), which left fast mode
\* although the 429 was reported at this very time
C39_Witness ==
  /\ rpc.pc = "sleep"
  /\ rpc.attempt = 1
  /\ rpc.storm = 1
  /\ rate_limiter.last_429_time = 0
  /\ rate_limiter.performance_mode = "fast"

\* the tasks that are inside acquire(), between taking the lock and the
\* end of the sleep
C40_InAcquire == {c \in Callers : acquirers[c] = "sleep"}

\* C40: the lock of the limiter is held for the whole of acquire(),
\* its sleep included; at most one task is inside an operation of the
\* limiter at a time, so concurrent tasks pass through acquire() one after
\* the other and a report of an outcome waits while another task sleeps in
\* acquire().
C40_OneInsideLimiter ==
  /\ [](Cardinality(C40_InAcquire) <= 1)
  /\ [](\A c \in C40_InAcquire : rate_limiter.lock = c)
  /\ [][\A c \in Callers :
          (\/ acquirers[c] = "lock" /\ acquirers'[c] = "sleep"
           \/ acquirers[c] \in Reports /\ acquirers'[c] = "out")
          => C40_InAcquire = {}]_vars

\* one task sleeps in acquire() with the lock while the other waits with
\* its on_success report
C40_Witness ==
  /\ acquirers[1] = "sleep"
  /\ rate_limiter.lock = 1
  /\ acquirers[2] = "on_success"

====
